---- MODULE Spec2Model ----
(***************************************************************************)
(* Model of terraform-provider-githubx: the resource handlers that talk to *)
(* the remote hosting API.  Each handler is a sequence of remote calls;    *)
(* every remote call is one step of the model, answered by the remote      *)
(* either faithfully (from the remote state) or with an injected failure.  *)
(* The handlers of different resources are independent: a run of the model *)
(* exercises one resource kind, chosen in the initial state (sys).         *)
(***************************************************************************)
EXTENDS Integers, Sequences, FiniteSets, TLC

(***************************************************************************)
(* Bounds of the model                                                     *)
(***************************************************************************)
\* number of distinct file contents / blob SHAs (1..NumShas)
NumShas == 2
\* number of modifications made to the remote outside Terraform in one run
MaxExternal == 1

(***************************************************************************)
(* HTTP status codes (net/http)                                            *)
(***************************************************************************)
StatusOK == 200
StatusNotModified == 304
StatusNotFound == 404
StatusMethodNotAllowed == 405
StatusConflict == 409
StatusUnprocessableEntity == 422
StatusTooManyRequests == 429
StatusInternalServerError == 500

\* failures the remote may answer to any read call, whatever its state
ReadFaults == {StatusTooManyRequests, StatusInternalServerError}
\* failures the remote may answer to any write call, whatever its state
WriteFaults == {StatusConflict, StatusUnprocessableEntity,
                StatusTooManyRequests, StatusInternalServerError}

(***************************************************************************)
(* Strings are sequences of characters                                     *)
(***************************************************************************)
IndexOf(s, c) ==
    IF \E i \in 1..Len(s) : s[i] = c
    THEN CHOOSE i \in 1..Len(s) : s[i] = c /\ \A j \in 1..(i - 1) : s[j] # c
    ELSE 0

\* strings.Contains(s, c) for a one-character c
Contains(s, c) == IndexOf(s, c) # 0

\* strings.SplitN(s, c, 2)
SplitN2(s, c) ==
    LET i == IndexOf(s, c)
    IN  IF i = 0 THEN <<s>>
        ELSE <<SubSeq(s, 1, i - 1), SubSeq(s, i + 1, Len(s))>>

\* the empty string
Empty == << >>
\* an attribute the plan leaves unknown until apply
Unknown == <<"?">>

VARIABLES
    sys,        \* the resource kind this run exercises
    \* ---- remote state of the file's repository
    rExists,    \* branch -> does the branch exist
    rFileAt,    \* branch -> 0 (no file at the path), DirEntry, or the blob SHA
    prState,    \* the pull request: "none", "open", "closed" or "merged"
    extCount,   \* modifications made outside Terraform so far
    rRepo,      \* the repository as the remote holds it
    \* ---- the resource: configuration and Terraform state
    cfg,        \* the declared attributes of the resource
    tfPresent,  \* the resource is recorded in Terraform state
    tfState,    \* the resource's state object
    afterDelete,\* the last handler was a Delete that ended without error,
                \* and nobody changed the remote since
    \* ---- the running handler
    fop,        \* "none" or the operation in progress
    fpc,        \* position in the handler
    model,      \* the plan/state model the handler works on
    optsSHA,    \* opts.SHA of the write request (0: not set)
    attempt,    \* loop counter of the write retry loop / of mergeWhenReady
    wAttempt,   \* loop counter of waitForChecks
    pl,         \* locals of mergeWhenReady: mergeMethod and repo
    err,        \* err of the last write call (0: nil)
    diag,       \* summary of the error diagnostic ("": none)
    warned,     \* a warning diagnostic was added
    h           \* history of the running handler (observation only)

remoteVars == <<rExists, rFileAt, extCount, rRepo>>
fileVars == <<cfg, tfPresent, tfState, fop, fpc, model, optsSHA, attempt, err,
              diag, warned, h>>
prVars == <<prState, wAttempt, pl>>
vars == <<sys, remoteVars, fileVars, prVars, afterDelete>>

(***************************************************************************)
(* The remote: branches and the file at the resource's path                *)
(***************************************************************************)
Branches == {"target", "source", "main"}
Shas == 1..NumShas
Contents == 1..NumShas
DirEntry == 0 - 1
NoSHA == 0
\* commits a branch can be created from: the source tip, or an explicit SHA
SourceTip == 1
ExplicitCommit == 2
MainTip == 3

\* git blob SHA of a content
BlobSHA(c) == c

\* the branch a request with ref/branch b addresses ("null": default branch)
RemoteBranch(b) == IF b \in {"source", "main"} THEN b ELSE "target"

\* ref.Object.SHA of Git.GetRef("refs/heads/" + b) for a source branch
TipOf(b) == IF b = "main" THEN MainTip ELSE SourceTip

\* blob SHA of the file on branch b, NoSHA when there is no file
CurSHA(b) == IF rExists[b] /\ rFileAt[b] \in Shas THEN rFileAt[b] ELSE NoSHA

\* Git.GetRef("refs/heads/" + b)
RefAnswers(b) ==
    {IF rExists[RemoteBranch(b)] THEN StatusOK ELSE StatusNotFound}
        \cup ReadFaults

\* Repositories.GetContents(path, ref b): <<status, sha>>; status OK with
\* sha = DirEntry stands for a directory listing (fileContent == nil)
ContentAnswers(b) ==
    LET rb == RemoteBranch(b)
        faithful ==
            IF ~rExists[rb] \/ rFileAt[rb] = 0 THEN <<StatusNotFound, NoSHA>>
            ELSE <<StatusOK, rFileAt[rb]>>
    IN  {faithful} \cup {<<f, NoSHA>> : f \in ReadFaults}

\* the remote accepts a contents write only when the SHA sent names the
\* current blob (no SHA: only when there is no file)
WriteAccepted(b, sha) ==
    LET rb == RemoteBranch(b)
    IN  rExists[rb] /\ rFileAt[rb] # DirEntry /\ sha = CurSHA(rb)

\* Repositories.CreateFile / UpdateFile (PUT contents)
PutAnswers(b, sha) ==
    LET rb == RemoteBranch(b)
        faithful ==
            IF ~rExists[rb] THEN StatusNotFound
            ELSE IF WriteAccepted(b, sha) THEN StatusOK
            ELSE IF sha = NoSHA THEN StatusUnprocessableEntity
            ELSE StatusConflict
    IN  {faithful} \cup WriteFaults

\* Repositories.DeleteFile (DELETE contents)
DeleteAnswers(b, sha) ==
    LET rb == RemoteBranch(b)
        faithful ==
            IF ~rExists[rb] \/ rFileAt[rb] = 0 THEN StatusNotFound
            ELSE IF WriteAccepted(b, sha) THEN StatusOK
            ELSE IF sha = NoSHA THEN StatusUnprocessableEntity
            ELSE StatusConflict
    IN  {faithful} \cup WriteFaults


\* the remote repository where the run does not look at its fields
NoRepo == [exists |-> TRUE, archived |-> FALSE, hasWiki |-> TRUE,
           description |-> <<"d">>]

(***************************************************************************)
(* History of the running handler.  Observation only: no guard reads it.   *)
(***************************************************************************)
\* answers that are neither success nor a 404, a 409/422 conflict or a 429
OtherErrors == {StatusInternalServerError, StatusMethodNotAllowed}

H0 == [ writes      |-> 0,       \* write calls issued by this operation
        stateSet    |-> FALSE,   \* resp.State.Set was called
        fetched     |-> NoSHA,   \* blob SHA most recently fetched (0: none)
        fetchOK     |-> FALSE,   \* the content fetch after the last write
                                 \* returned the file
        stateSHA    |-> NoSHA,   \* the SHA recorded in state at the start
        modified    |-> FALSE,   \* a write changed or deleted an existing file
        modMatch    |-> TRUE,    \* ... and every such write named the current blob
        found       |-> FALSE,   \* the path was taken when the last write call
                                 \* was made
        mutated     |-> FALSE,   \* the operation changed the remote
        createdFrom |-> 0,       \* commit the branch was auto-created from
        lastSite    |-> "",      \* call site of the last remote call
        lastAnswer  |-> 0,       \* status of the last remote answer
        rerun       |-> FALSE,   \* Delete started right after a Delete that
                                 \* ended without error
        disturbed   |-> FALSE,   \* the remote was changed from outside while
                                 \* the handler ran
        merges      |-> 0,       \* merge calls issued
        ready       |-> "none",  \* what mergeWhenReady's last poll saw
        polled      |-> "none",  \* what the status poll after it contained
        sleep       |-> 0,       \* seconds of the last time.Sleep
        wErr        |-> "",      \* what waitForChecks last returned
        polls       |-> 0,       \* pending polls of the waitForChecks that
                                 \* gave up
        mErr        |-> "",      \* what mergeWhenReady returned
        lastMsg     |-> "" ]     \* message of the last answer, where the
                                 \* code reads it

\* record a remote call made at `site`, answered `st`; mut: it changed the remote
Log(hh, site, st, mut) ==
    [hh EXCEPT !.lastSite   = site,
               !.lastAnswer = st,
               !.lastMsg    = "",
               !.mutated    = @ \/ mut]

\* record a call of resp.State.Set
LogSet(hh) == [hh EXCEPT !.stateSet = TRUE]

(***************************************************************************)
(* File resource (resource_repository_file.go)                             *)
(***************************************************************************)
repoName == <<"r">>
filePath == <<"f">>

\* fmt.Sprintf("%s:%s", repoName, filePath)
BuildFileID(r, f) == r \o <<":">> \o f

\* faulty variant: one pass too many
maxRetries_more == 5 + 1

\* the retry bound of the write loops of Create, Update and Delete
maxRetries == 5

\* faulty variant: 422 handled like 409
IsConflict_or422(st) == st \in {StatusConflict, StatusUnprocessableEntity}

\* the status the write loops answer with a fresh fetch and a retry
IsConflict(st) == st = StatusConflict

\* opts.SHA of the first attempt: Update and Delete send the SHA in state
InitialSHA(op, stateSha) ==
    IF op \in {"Update", "Delete"} THEN stateSha ELSE NoSHA

\* faulty variant: the retry keeps the SHA it already had
NextSHA_stale(cur, fetchedSha) == cur

\* opts.SHA after a content fetch that returned the file (fc.GetSHA())
NextSHA(cur, fetchedSha) == fetchedSha

\* faulty variant: readFile without its 404 case
ReadFileOutcome_no404(st, isDir) ==
    CASE st = StatusTooManyRequests -> "rateLimit"
      [] st = StatusOK /\ isDir     -> "gone"
      [] st = StatusOK /\ ~isDir    -> "file"
      [] OTHER                      -> "error"

\* faulty variant: any other failure read as "the file is gone"
ReadFileOutcome_lenient(st, isDir) ==
    CASE st = StatusTooManyRequests -> "rateLimit"
      [] st = StatusOK /\ ~isDir    -> "file"
      [] OTHER                      -> "gone"

\* readFile's reading of the answer of GetContents
ReadFileOutcome(st, isDir) ==
    CASE st = StatusTooManyRequests -> "rateLimit"
      [] st = StatusNotFound        -> "gone"
      [] st = StatusOK /\ isDir     -> "gone"
      [] st = StatusOK /\ ~isDir    -> "file"
      [] OTHER                      -> "error"

\* summary of the diagnostic added when the write loop ends with err # nil
WriteError(op) ==
    CASE op = "Create" -> "Error creating file"
      [] op = "Update" -> "Error updating file"
      [] OTHER         -> "Error deleting file"

FileOps == {"Create", "Read", "Update", "Delete"}

\* mergeWhenReady has not run: no merge method chosen, no repo fetched
NoLocals == [method |-> "", allows |-> {}, repo |-> FALSE]

NullState == [id |-> Empty, sha |-> NoSHA, branch |-> "null", content |-> 0]

\* the branch to start from: autocreate_branch_source_branch, "main" when empty
sourceBranchName(configured) ==
    IF configured = "" THEN "main" ELSE configured

\* faulty variant: the branch always starts from the source branch's tip
sourceBranchSHA_tip(explicit, tip) == tip

\* the commit the missing branch is created from
sourceBranchSHA(explicit, tip) ==
    IF explicit THEN ExplicitCommit ELSE tip

\* faulty variant: the existing file is looked up whatever overwrite_on_create says
AfterBranchPC_always(op) ==
    IF op = "Create" THEN "precheck" ELSE "write"

\* position after checkAndCreateBranchIfNeeded returned true
AfterBranchPC(op) ==
    IF op = "Create" /\ cfg.overwrite THEN "precheck" ELSE "write"

\* the handler up to its first remote call
FileBegin(op, c) ==
    /\ sys = "file" /\ fpc = "idle"
    /\ CASE op = "Create" -> ~tfPresent
         [] op = "Delete" -> tfPresent \/ afterDelete
         [] OTHER         -> tfPresent
    /\ fop' = op
    /\ attempt' = 0 /\ err' = 0 /\ warned' = FALSE
    /\ afterDelete' = (op = "Delete" /\ afterDelete)
    \* Create is handed no prior state
    /\ tfState' = IF op = "Create" THEN NullState ELSE tfState
    /\ LET plan  == [id |-> Unknown, sha |-> NoSHA, branch |-> cfg.branch,
                     content |-> c]
           m0    == IF op \in {"Create", "Update"} THEN plan ELSE tfState
           h0    == [H0 EXCEPT !.stateSHA = IF op = "Create" THEN NoSHA
                                            ELSE tfState.sha,
                               !.rerun = (op = "Delete" /\ afterDelete)]
           parts == SplitN2(tfState.id, ":")
       IN  IF op # "Create" /\ tfState.id = Empty
           THEN \* "Resource ID is empty": Read and Update write the state back
                /\ model' = tfState
                /\ optsSHA' = NoSHA
                /\ h' = IF op = "Delete" THEN h0 ELSE LogSet(h0)
                /\ tfPresent' = (op # "Delete" /\ tfPresent)
                /\ fpc' = "done" /\ diag' = ""
           ELSE IF op # "Create" /\ Len(parts) # 2
           THEN /\ model' = tfState
                /\ optsSHA' = NoSHA
                /\ h' = h0
                /\ tfPresent' = tfPresent
                /\ fpc' = "done" /\ diag' = "Invalid ID"
           ELSE /\ model' = m0
                /\ optsSHA' = InitialSHA(op, tfState.sha)
                /\ h' = h0
                /\ tfPresent' = tfPresent
                /\ diag' = ""
                /\ fpc' = IF op = "Read"
                          THEN (IF m0.branch # "null" THEN "readCheckBranch"
                                ELSE "readFile")
                          ELSE (IF m0.branch # "null" THEN "checkBranch"
                                ELSE AfterBranchPC(op))
    /\ UNCHANGED <<sys, prVars, remoteVars, cfg>>

\* checkAndCreateBranchIfNeeded: checkRepositoryBranchExists
FileCheckBranch ==
    /\ sys = "file" /\ fpc = "checkBranch"
    /\ \E st \in RefAnswers(model.branch) :
        /\ h' = Log(h, "checkBranch", st, FALSE)
        /\ IF st = StatusOK
           THEN fpc' = AfterBranchPC(fop) /\ diag' = diag
           ELSE IF ~cfg.autocreate
           THEN fpc' = "done" /\ diag' = "Branch Not Found"
           ELSE /\ fpc' = IF cfg.srcSha THEN "createRef" ELSE "getSourceRef"
                /\ diag' = diag
    /\ UNCHANGED <<sys, prVars, afterDelete, remoteVars, cfg, tfPresent, tfState, fop, model,
                   optsSHA, attempt, err, warned>>

\* checkAndCreateBranchIfNeeded: Git.GetRef of the source branch
FileGetSourceRef ==
    /\ sys = "file" /\ fpc = "getSourceRef"
    /\ \E st \in RefAnswers(sourceBranchName(cfg.source)) :
        /\ h' = Log(h, "getSourceRef", st, FALSE)
        /\ IF st = StatusOK
           THEN fpc' = "createRef" /\ diag' = diag
           ELSE fpc' = "done" /\ diag' = "Error querying source branch"
    /\ UNCHANGED <<sys, prVars, afterDelete, remoteVars, cfg, tfPresent, tfState, fop, model,
                   optsSHA, attempt, err, warned>>

\* checkAndCreateBranchIfNeeded: Git.CreateRef of the missing branch
FileCreateRef ==
    /\ sys = "file" /\ fpc = "createRef"
    /\ LET rb     == RemoteBranch(model.branch)
           src    == sourceBranchName(cfg.source)
           commit == sourceBranchSHA(cfg.srcSha, TipOf(src))
           faithful == IF rExists[rb] THEN StatusUnprocessableEntity
                       ELSE StatusOK
       IN  \E st \in {faithful} \cup (WriteFaults \ {StatusConflict}) :
           \E f \in (IF st # StatusOK THEN {0}
                     ELSE IF commit = TipOf(src) THEN {rFileAt[src]}
                     ELSE {0, 1}) :
            /\ h' = [Log(h, "createRef", st, st = StatusOK) EXCEPT
                        !.createdFrom = IF st = StatusOK THEN commit ELSE @]
            /\ IF st = StatusOK
               THEN /\ rExists' = [rExists EXCEPT ![rb] = TRUE]
                    /\ rFileAt' = [rFileAt EXCEPT ![rb] = f]
                    /\ fpc' = AfterBranchPC(fop) /\ diag' = diag
               ELSE /\ UNCHANGED <<rExists, rFileAt>>
                    /\ fpc' = "done" /\ diag' = "Error creating branch"
    /\ UNCHANGED <<sys, prVars, afterDelete, extCount, rRepo, cfg, tfPresent, tfState, fop, model,
                   optsSHA, attempt, err, warned>>

\* Create with overwrite_on_create: look the existing file's SHA up
FilePrecheck ==
    /\ sys = "file" /\ fpc = "precheck"
    /\ \E a \in ContentAnswers(model.branch) :
        LET isFile == a[1] = StatusOK /\ a[2] # DirEntry
        IN  /\ h' = [Log(h, "precheck", a[1], FALSE)
                        EXCEPT !.fetched = IF isFile THEN a[2] ELSE @]
            /\ optsSHA' = IF isFile THEN NextSHA(optsSHA, a[2]) ELSE optsSHA
    /\ fpc' = "write"
    /\ UNCHANGED <<sys, prVars, afterDelete, remoteVars, cfg, tfPresent, tfState, fop, model,
                   attempt, err, diag, warned>>

\* one pass of the write loop up to the answer of CreateFile / DeleteFile
FileWrite ==
    /\ sys = "file" /\ fpc = "write"
    /\ \E st \in (IF fop = "Delete" THEN DeleteAnswers(model.branch, optsSHA)
                  ELSE PutAnswers(model.branch, optsSHA)) :
        LET ok  == st = StatusOK
            rb  == RemoteBranch(model.branch)
            had == rFileAt[rb] # 0
            h1  == [Log(h, "write", st, ok) EXCEPT
                        !.writes      = @ + 1,
                        !.fetchOK     = FALSE,
                        !.modified    = @ \/ (ok /\ had),
                        !.found       = had,
                        !.modMatch    = @ /\ ((ok /\ had) => optsSHA = CurSHA(rb))]
        IN  /\ h' = h1
            /\ err' = IF ok THEN 0 ELSE st
            /\ rFileAt' = IF ok
                          THEN [rFileAt EXCEPT ![rb] =
                                   IF fop = "Delete" THEN 0
                                   ELSE BlobSHA(model.content)]
                          ELSE rFileAt
            /\ CASE ok /\ fop = "Delete" ->
                        /\ fpc' = "done" /\ diag' = diag
                        /\ tfPresent' = FALSE /\ model' = model
                 [] ok /\ fop # "Delete" ->
                        /\ fpc' = "readFile" /\ diag' = diag
                        /\ tfPresent' = tfPresent
                        /\ model' = [model EXCEPT !.id =
                                        IF fop = "Create"
                                        THEN BuildFileID(repoName, filePath)
                                        ELSE tfState.id]
                 [] ~ok /\ fop = "Delete" /\ st = StatusNotFound ->
                        /\ fpc' = "done" /\ diag' = diag
                        /\ tfPresent' = FALSE /\ model' = model
                 [] ~ok /\ ~(fop = "Delete" /\ st = StatusNotFound)
                        /\ IsConflict(st) ->
                        /\ fpc' = "refetch" /\ diag' = diag
                        /\ tfPresent' = tfPresent /\ model' = model
                 [] OTHER ->
                        /\ fpc' = "done" /\ diag' = WriteError(fop)
                        /\ tfPresent' = tfPresent /\ model' = model
    /\ UNCHANGED <<sys, prVars, afterDelete, rExists, extCount, rRepo, cfg, tfState, fop,
                   optsSHA, attempt, warned>>

\* the write loop after a conflict: fetch the current SHA, then continue or break
FileRefetch ==
    /\ sys = "file" /\ fpc = "refetch"
    /\ \E a \in ContentAnswers(model.branch) :
        LET isFile == a[1] = StatusOK /\ a[2] # DirEntry
            h1 == [Log(h, "refetch", a[1], FALSE) EXCEPT
                        !.fetchOK    = isFile,
                        !.fetched    = IF isFile THEN a[2] ELSE @]
            \* "continue": attempt++, and the loop ends when the bound is reached
            more == attempt + 1 < maxRetries
            Continue(sha) ==
                /\ optsSHA' = sha
                /\ attempt' = attempt + 1
                /\ fpc' = IF more THEN "write" ELSE "done"
                /\ diag' = IF more THEN diag ELSE WriteError(fop)
                /\ tfPresent' = tfPresent
            \* "break": err # nil after the loop
            Break(d) ==
                /\ optsSHA' = optsSHA
                /\ attempt' = attempt
                /\ fpc' = "done" /\ diag' = d
                /\ tfPresent' = tfPresent
        IN  /\ h' = h1
            /\ CASE fop = "Create" /\ isFile /\ cfg.overwrite ->
                        Continue(NextSHA(optsSHA, a[2]))
                 [] fop = "Create" /\ isFile /\ ~cfg.overwrite ->
                        Break("File Already Exists")
                 [] fop = "Create" /\ ~isFile -> Continue(optsSHA)
                 [] fop = "Update" /\ isFile -> Continue(NextSHA(optsSHA, a[2]))
                 [] fop = "Update" /\ ~isFile -> Break(WriteError(fop))
                 [] fop = "Delete" /\ a[1] = StatusNotFound ->
                        /\ optsSHA' = optsSHA /\ attempt' = attempt
                        /\ fpc' = "done" /\ diag' = diag
                        /\ tfPresent' = FALSE
                 [] fop = "Delete" /\ a[1] # StatusNotFound /\ isFile ->
                        Continue(NextSHA(optsSHA, a[2]))
                 [] OTHER -> Break(WriteError(fop))
    /\ UNCHANGED <<sys, prVars, afterDelete, remoteVars, cfg, tfState, fop, model, err, warned>>

\* Read: checkRepositoryBranchExists of the branch recorded in state
FileReadCheckBranch ==
    /\ sys = "file" /\ fpc = "readCheckBranch"
    /\ \E st \in RefAnswers(model.branch) :
        LET h1 == Log(h, "readCheckBranch", st, FALSE)
        IN  IF st = StatusOK
            THEN /\ fpc' = "readFile" /\ model' = model /\ h' = h1
                 /\ UNCHANGED <<tfState, tfPresent>>
            ELSE IF cfg.autocreate
            THEN \* state.Branch = state.AutocreateBranchSource
                 /\ fpc' = "readFile"
                 /\ model' = [model EXCEPT !.branch =
                                    sourceBranchName(cfg.source)]
                 /\ h' = h1
                 /\ UNCHANGED <<tfState, tfPresent>>
            ELSE \* "the branch no longer exists": the id is cleared, state set
                 /\ fpc' = "done"
                 /\ model' = [model EXCEPT !.id = Empty]
                 /\ h' = LogSet(h1)
                 /\ tfState' = [model EXCEPT !.id = Empty]
                 /\ tfPresent' = TRUE
    /\ UNCHANGED <<sys, prVars, afterDelete, remoteVars, cfg, fop, optsSHA, attempt, err, diag,
                   warned>>

\* readFile up to the answer of GetContents; on 404 (or a directory) the id is
\* cleared and the caller goes on to resp.State.Set
FileReadFile ==
    /\ sys = "file" /\ fpc = "readFile"
    /\ \E a \in ContentAnswers(model.branch) :
        LET h1 == [Log(h, "readFile", a[1], FALSE) EXCEPT
                       !.fetched = IF a[1] = StatusOK /\ a[2] # DirEntry
                                   THEN a[2] ELSE @]
            gone == [model EXCEPT !.id = Empty]
            out  == ReadFileOutcome(a[1], a[2] = DirEntry)
        IN  CASE out = "rateLimit" ->
                    /\ fpc' = "done" /\ diag' = "Rate Limit Exceeded"
                    /\ h' = h1
                    /\ UNCHANGED <<model, tfState, tfPresent>>
              [] out = "gone" ->
                    /\ fpc' = "done" /\ diag' = diag
                    /\ model' = gone
                    /\ h' = LogSet(h1)
                    /\ tfState' = gone
                    /\ tfPresent' = TRUE
              [] out = "file" ->
                    /\ fpc' = "commitInfo" /\ diag' = diag
                    /\ model' = [model EXCEPT !.sha = a[2], !.content = a[2]]
                    /\ h' = h1
                    /\ UNCHANGED <<tfState, tfPresent>>
              [] OTHER ->
                    /\ fpc' = "done" /\ diag' = "Error reading file"
                    /\ h' = h1
                    /\ UNCHANGED <<model, tfState, tfPresent>>
    /\ UNCHANGED <<sys, prVars, afterDelete, remoteVars, cfg, fop, optsSHA, attempt, err, warned>>

\* readFile: the commit lookup (a failure is a warning), then resp.State.Set
FileCommitInfo ==
    /\ sys = "file" /\ fpc = "commitInfo"
    /\ \E st \in {StatusOK} \cup ReadFaults :
        /\ h' = LogSet(Log(h, "commitInfo", st, FALSE))
        /\ warned' = (warned \/ st # StatusOK)
    /\ tfState' = model
    /\ tfPresent' = TRUE
    /\ fpc' = "done"
    /\ UNCHANGED <<sys, prVars, afterDelete, remoteVars, cfg, fop, model, optsSHA, attempt, err,
                   diag>>

\* the object the resource manages is no longer there (a pull request is
\* never removed: it is closed or merged)
DeletedRemotely ==
    CASE sys = "file"   -> /\ rExists[RemoteBranch(cfg.branch)]
                           /\ CurSHA(RemoteBranch(cfg.branch)) = NoSHA
      [] sys = "pr"     -> prState # "open"
      [] sys = "branch" -> ~rExists[<<"b">>]
      [] OTHER          -> FALSE

\* the handler returns to the framework
FileReturn ==
    /\ sys = "file" /\ fpc = "done"
    /\ fpc' = "idle" /\ fop' = "none"
    /\ h' = H0 /\ diag' = "" /\ err' = 0 /\ attempt' = 0 /\ optsSHA' = NoSHA
    /\ warned' = FALSE
    /\ model' = NullState
    /\ afterDelete' = (fop = "Delete" /\ diag = "" /\ ~h.disturbed
                        /\ DeletedRemotely)
    /\ UNCHANGED <<sys, prVars, remoteVars, cfg, tfPresent, tfState>>

\* somebody else changes the file on the target branch, or deletes the branch
FileExternal ==
    /\ sys = "file" /\ extCount < MaxExternal
    /\ extCount' = extCount + 1
    /\ \/ /\ rExists["target"]
          /\ \E v \in ({0, DirEntry} \cup Shas) \ {rFileAt["target"]} :
                rFileAt' = [rFileAt EXCEPT !["target"] = v]
          /\ UNCHANGED rExists
       \/ /\ rExists["target"]
          /\ rExists' = [rExists EXCEPT !["target"] = FALSE]
          /\ rFileAt' = [rFileAt EXCEPT !["target"] = 0]
    /\ afterDelete' = FALSE
    /\ h' = [h EXCEPT !.disturbed = (fpc # "idle")]
    /\ UNCHANGED <<sys, rRepo, prVars, cfg, tfPresent, tfState, fop, fpc, model,
                   optsSHA, attempt, err, diag, warned>>

\* declared attributes: branch, autocreate_branch, autocreate_branch_source_sha
\* (set or not), autocreate_branch_source_branch, overwrite_on_create
FileConfigs ==
    { c \in [branch : {"null", "target"}, autocreate : BOOLEAN,
             srcSha : BOOLEAN, source : {"", "source"}, overwrite : BOOLEAN] :
        /\ (c.branch = "null" => ~c.autocreate)
        /\ (~c.autocreate => (~c.srcSha /\ c.source = "")) }

FileInit ==
    /\ sys = "file"
    /\ rExists \in [Branches -> BOOLEAN]
    /\ rFileAt \in [Branches -> {0} \cup Shas]
    /\ \A b \in Branches : ~rExists[b] => rFileAt[b] = 0
    /\ extCount = 0 /\ rRepo = NoRepo
    /\ cfg \in FileConfigs
    /\ rExists["source"] /\ rFileAt["source"] = 1
    /\ rExists["main"] /\ rFileAt["main"] = 0
    /\ tfPresent = FALSE
    /\ tfState = NullState
    /\ fop = "none" /\ fpc = "idle"
    /\ model = NullState
    /\ optsSHA = NoSHA /\ attempt = 0 /\ err = 0 /\ diag = "" /\ warned = FALSE
    /\ h = H0
    /\ prState = "none" /\ wAttempt = 0 /\ pl = NoLocals
    /\ afterDelete = FALSE

FileNext ==
    \/ \E op \in FileOps :
         \E c \in (IF op \in {"Create", "Update"} THEN Contents ELSE {1}) :
            FileBegin(op, c)
    \/ FileCheckBranch
    \/ FileGetSourceRef
    \/ FileCreateRef
    \/ FilePrecheck
    \/ FileWrite
    \/ FileRefetch
    \/ FileReadCheckBranch
    \/ FileReadFile
    \/ FileCommitInfo
    \/ FileReturn
    \/ FileExternal

(***************************************************************************)
(* Pull-request resource: src/unnamed/part_006                             *)
(***************************************************************************)
\* the pull request's number, as the id spells it
prNumber == <<"1">>

Digits == {"0", "1", "2", "3", "4", "5", "6", "7", "8", "9"}

\* strconv.Atoi succeeds
IsNumber(s) == Len(s) > 0 /\ \A i \in 1..Len(s) : s[i] \in Digits

\* pr.GetState() and pr.GetMerged() of a pull request of the remote
GetState(p) == IF p = "open" THEN "open" ELSE "closed"
GetMerged(p) == p = "merged"

\* pr.Mergeable: not yet computed, false, true
Mergeables == {"nil", "false", "true"}

MergeMethods == {"merge", "squash", "rebase"}

\* the states of a commit status
StatusStates == {"success", "pending", "failure", "error"}

\* longest list of statuses ListStatuses answers with
MaxStatuses == 2

StatusLists ==
    UNION {[1..n -> StatusStates] : n \in 0..MaxStatuses}

\* maxAttempts of mergeWhenReady
mergeMaxAttempts == 30

\* maxAttempts of waitForChecks
checksMaxAttempts == 60

\* faulty variant: the wait grows with the attempt
PollSleep_backoff(n) == 5 * (n + 1)

\* time.Sleep(5 * time.Second) after attempt n
PollSleep(n) == 5

\* PullRequests.Get: the pull request as the remote has it (mergeable is
\* computed by the remote in the background, so any value may be seen), or
\* an error status
PRGetAnswers ==
    (IF prState = "none" THEN {}
     ELSE {[st |-> StatusOK, state |-> GetState(prState),
            merged |-> GetMerged(prState), mergeable |-> m] :
              m \in (IF prState = "open" THEN Mergeables ELSE {"nil"})})
    \cup {[st |-> f, state |-> "", merged |-> FALSE, mergeable |-> "nil"] :
              f \in {StatusNotFound} \cup ReadFaults}

\* the error statuses a mutating pull-request call may be answered with
PRWriteFaults == {StatusUnprocessableEntity, StatusTooManyRequests,
                  StatusInternalServerError}

PRNull == [id |-> Empty, mwr |-> FALSE, wait |-> FALSE, head |-> "source",
           state |-> "", merged |-> FALSE]

PRPlans == [mwr : BOOLEAN, wait : BOOLEAN, head : {"source", "target"}]

\* the handler ends with error diagnostic d
PRFail(d) == fpc' = "done" /\ diag' = d

\* Create after the pull request is known: auto-merge only when it is open
PRAfterKnown(st, merged) ==
    IF st = "open" /\ ~merged /\ model.mwr THEN "mGet" ELSE "prRead"

\* the handlers up to their first remote call
PRBegin(op, p) ==
    /\ sys = "pr" /\ fpc = "idle"
    /\ CASE op = "Create" -> ~tfPresent
         [] op = "Delete" -> tfPresent \/ afterDelete
         [] OTHER         -> tfPresent
    /\ fop' = op /\ attempt' = 0 /\ wAttempt' = 0 /\ pl' = NoLocals
    /\ h' = [H0 EXCEPT !.rerun = (op = "Delete" /\ afterDelete)]
    /\ afterDelete' = (op = "Delete" /\ afterDelete)
    \* Create is handed no prior state
    /\ tfState' = IF op = "Create" THEN PRNull ELSE tfState
    /\ LET parts == SplitN2(tfState.id, ":")
       IN  CASE op = "Create" ->
                  /\ model' = [PRNull EXCEPT !.id = Unknown, !.mwr = p.mwr,
                                             !.wait = p.wait, !.head = p.head]
                  /\ IF p.head = "target"
                     THEN PRFail("Invalid Configuration")
                     ELSE fpc' = "prList" /\ diag' = ""
             [] op # "Create" /\ Len(parts) # 2 ->
                  /\ model' = tfState
                  /\ PRFail("Invalid ID")
             [] op # "Create" /\ Len(parts) = 2 /\ ~IsNumber(parts[2]) ->
                  /\ model' = tfState
                  /\ PRFail("Invalid PR Number")
             [] OTHER ->
                  /\ model' = IF op = "Update"
                              THEN [tfState EXCEPT !.mwr = p.mwr,
                                                   !.wait = p.wait]
                              ELSE tfState
                  /\ diag' = ""
                  /\ fpc' = CASE op = "Read"   -> "prRead"
                              [] op = "Update" -> "prEdit"
                              [] OTHER         -> "dGet"
    /\ UNCHANGED <<sys, remoteVars, prState, cfg, tfPresent, optsSHA, err,
                   warned>>

\* existingPR.GetMerged() of an item of PullRequests.List: the accessor
\* gives false when the answer carries no "merged" field, and nothing in the
\* handler makes the list carry it
ListMerged(p) == IF GetMerged(p) THEN {TRUE, FALSE} ELSE {FALSE}

\* Create: findExistingPR, then adopt the pull request found, or go on to
\* reopen it or to create one
PRList ==
    /\ sys = "pr" /\ fpc = "prList"
    /\ \E st \in {StatusOK} \cup ReadFaults : \E merged \in ListMerged(prState) :
        /\ h' = Log(h, "prList", st, FALSE)
        /\ CASE st # StatusOK ->
                  /\ PRFail("Error checking for existing pull request")
                  /\ model' = model
             [] st = StatusOK /\ prState = "none" ->
                  /\ fpc' = "getBase" /\ diag' = diag /\ model' = model
             [] st = StatusOK /\ prState # "none"
                  /\ GetState(prState) = "closed" /\ ~merged ->
                  /\ fpc' = "reopen" /\ diag' = diag /\ model' = model
             [] OTHER ->
                  /\ model' = [model EXCEPT
                                  !.id = repoName \o <<":">> \o prNumber]
                  /\ fpc' = PRAfterKnown(GetState(prState), merged)
                  /\ diag' = diag
    /\ UNCHANGED <<sys, remoteVars, prVars, cfg, tfPresent, tfState,
                   afterDelete, fop, optsSHA, attempt, err, warned>>

\* Create: PullRequests.Edit(state open) of the closed pull request found
PRReopen ==
    /\ sys = "pr" /\ fpc = "reopen"
    /\ \E st \in {IF prState = "closed" THEN StatusOK
                  ELSE StatusUnprocessableEntity} \cup PRWriteFaults :
        /\ h' = Log(h, "reopen", st, st = StatusOK)
        /\ IF st = StatusOK
           THEN /\ prState' = "open"
                /\ model' = [model EXCEPT
                                !.id = repoName \o <<":">> \o prNumber]
                /\ fpc' = PRAfterKnown("open", FALSE) /\ diag' = diag
           ELSE /\ PRFail("Error reopening pull request")
                /\ UNCHANGED <<prState, model>>
    /\ UNCHANGED <<sys, remoteVars, wAttempt, pl, cfg, tfPresent, tfState,
                   afterDelete, fop, optsSHA, attempt, err, warned>>

\* Create: getBranchSHAs, the base branch
PRGetBase ==
    /\ sys = "pr" /\ fpc = "getBase"
    /\ \E st \in RefAnswers("target") :
        /\ h' = Log(h, "getBase", st, FALSE)
        /\ IF st = StatusOK
           THEN fpc' = "getHead" /\ diag' = diag
           ELSE PRFail("Error checking branch differences")
    /\ UNCHANGED <<sys, remoteVars, prVars, cfg, tfPresent, tfState,
                   afterDelete, fop, model, optsSHA, attempt, err, warned>>

\* Create: getBranchSHAs, the head branch, and the comparison of the tips
PRGetHead ==
    /\ sys = "pr" /\ fpc = "getHead"
    /\ \E st \in RefAnswers("source") : \E same \in BOOLEAN :
        /\ (st # StatusOK => ~same)
        /\ h' = Log(h, "getHead", st, FALSE)
        /\ CASE st # StatusOK -> PRFail("Error checking branch differences")
             [] st = StatusOK /\ same -> PRFail("No Differences")
             [] OTHER -> fpc' = "prCreate" /\ diag' = diag
    /\ UNCHANGED <<sys, remoteVars, prVars, cfg, tfPresent, tfState,
                   afterDelete, fop, model, optsSHA, attempt, err, warned>>

\* Create: PullRequests.Create
PRCreate ==
    /\ sys = "pr" /\ fpc = "prCreate"
    /\ \E a \in {IF prState = "none" THEN <<StatusOK, "">>
                 ELSE <<StatusUnprocessableEntity, "already exists">>}
            \cup {<<f, "">> : f \in PRWriteFaults} :
        /\ h' = [Log(h, "prCreate", a[1], a[1] = StatusOK) EXCEPT
                    !.lastMsg = a[2]]
        /\ CASE a[1] = StatusOK ->
                  /\ prState' = "open"
                  /\ model' = [model EXCEPT
                                  !.id = repoName \o <<":">> \o prNumber]
                  /\ fpc' = PRAfterKnown("open", FALSE) /\ diag' = diag
             [] a[1] = StatusUnprocessableEntity /\ a[2] = "already exists" ->
                  /\ PRFail("Pull Request Already Exists or No Changes")
                  /\ UNCHANGED <<prState, model>>
             [] OTHER ->
                  /\ PRFail("Error creating pull request")
                  /\ UNCHANGED <<prState, model>>
    /\ UNCHANGED <<sys, remoteVars, wAttempt, pl, cfg, tfPresent, tfState,
                   afterDelete, fop, optsSHA, attempt, err, warned>>

\* mergeWhenReady proceeds only on mergeable = true
IsReady(mergeable) == mergeable = "true"

\* mergeWhenReady: attempt++, time.Sleep, continue; the loop test ends the
\* loop at maxAttempts and mergeWhenReady returns its last error
MergeAgain(hh) ==
    /\ attempt' = attempt + 1
    /\ wAttempt' = 0 /\ pl' = NoLocals
    /\ IF attempt + 1 < mergeMaxAttempts
       THEN /\ fpc' = "mGet" /\ diag' = diag
            /\ h' = [hh EXCEPT !.sleep = PollSleep(attempt)]
       ELSE /\ PRFail("Error setting up auto-merge")
            /\ h' = [hh EXCEPT
                        !.sleep = PollSleep(attempt),
                        !.mErr = "pull request not ready to merge after 30 attempts"]

\* mergeWhenReady returns e ("" for nil) to Create or Update
MergeReturn(hh, e) ==
    /\ wAttempt' = 0 /\ pl' = NoLocals
    /\ IF e = ""
       THEN fpc' = "prRead" /\ diag' = diag /\ h' = hh /\ attempt' = 0
       ELSE /\ PRFail("Error setting up auto-merge")
            /\ h' = [hh EXCEPT !.mErr = e]
            /\ attempt' = attempt

\* the pull request is ready: on to the approving review.  The loop
\* counters are not read again, every path from here returns
MergeProceed(hh) ==
    /\ fpc' = "review" /\ diag' = diag /\ h' = hh
    /\ attempt' = 0 /\ wAttempt' = 0 /\ pl' = NoLocals

\* a step inside mergeWhenReady that goes on to position pc
MergeGoto(hh, pc) ==
    /\ fpc' = pc /\ diag' = diag /\ h' = hh
    /\ UNCHANGED <<attempt, wAttempt, pl>>

\* mergeWhenReady: PullRequests.Get and the tests of state and mergeability
PRMergeGet ==
    /\ sys = "pr" /\ fpc = "mGet"
    /\ \E a \in PRGetAnswers :
        LET seen == CASE a.st # StatusOK   -> "error"
                      [] a.state # "open"  -> "notOpen"
                      [] OTHER             -> a.mergeable
            h1 == [Log(h, "mGet", a.st, FALSE) EXCEPT
                      !.ready = seen, !.polled = "none"]
        IN  CASE a.st # StatusOK ->
                    MergeReturn(h1, "unable to get pull request")
              [] a.st = StatusOK /\ a.state # "open" ->
                    MergeReturn(h1, IF a.merged THEN ""
                                    ELSE "pull request is not open")
              [] a.st = StatusOK /\ a.state = "open"
                    /\ ~IsReady(a.mergeable) ->
                    MergeAgain(h1)
              [] OTHER ->
                    IF model.wait
                    THEN MergeGoto([h1 EXCEPT !.wErr = ""], "wGet")
                    ELSE MergeProceed(h1)
    /\ UNCHANGED <<sys, remoteVars, prState, cfg, tfPresent, tfState,
                   afterDelete, fop, model, optsSHA, err, warned>>

\* waitForChecks: PullRequests.Get for the head SHA
PRChecksGet ==
    /\ sys = "pr" /\ fpc = "wGet"
    /\ \E a \in PRGetAnswers :
        LET h1 == Log(h, "wGet", a.st, FALSE)
        IN  IF a.st = StatusOK
            THEN MergeGoto(h1, "wList")
            ELSE MergeAgain([h1 EXCEPT !.wErr = "unable to get pull request"])
    /\ UNCHANGED <<sys, remoteVars, prState, cfg, tfPresent, tfState,
                   afterDelete, fop, model, optsSHA, err, warned>>

\* the for loop of waitForChecks over statuses, from index i: "pending"
\* (break with allPassed false), "failed" (return an error), "passed"
RECURSIVE ScanStatuses(_, _)
ScanStatuses(statuses, i) ==
    IF i > Len(statuses) THEN "passed"
    ELSE IF statuses[i] = "pending" THEN "pending"
    ELSE IF statuses[i] \in {"error", "failure"} THEN "failed"
    ELSE ScanStatuses(statuses, i + 1)

\* faulty variant: a pending status only ends the scan
ChecksVerdict_lax(statuses) ==
    IF ScanStatuses(statuses, 1) = "failed" THEN "error" ELSE "ok"

\* what one pass of waitForChecks makes of the statuses: return an error,
\* return nil, or sleep and poll again
ChecksVerdict(statuses) ==
    LET scan == ScanStatuses(statuses, 1)
    IN  CASE scan = "failed"                        -> "error"
          [] scan = "passed" /\ Len(statuses) > 0   -> "ok"
          [] scan # "failed" /\ Len(statuses) = 0   -> "ok"
          [] OTHER                                  -> "again"

\* the list holds a status in state pending, error or failure
HasUnfinished(statuses) ==
    \E i \in 1..Len(statuses) : statuses[i] \in {"pending", "error", "failure"}

\* waitForChecks: Repositories.ListStatuses and the verdict
PRChecksList ==
    /\ sys = "pr" /\ fpc = "wList"
    /\ \E a \in {<<StatusOK, l>> : l \in StatusLists}
            \cup {<<f, << >> >> : f \in {StatusNotFound} \cup ReadFaults} :
        LET v  == ChecksVerdict(a[2])
            h1 == [Log(h, "wList", a[1], FALSE) EXCEPT
                      !.polled = CASE a[1] # StatusOK     -> "error"
                                   [] HasUnfinished(a[2]) -> "unfinished"
                                   [] OTHER               -> "clean"]
        IN  CASE a[1] # StatusOK ->
                    MergeAgain([h1 EXCEPT
                                   !.wErr = "unable to get status checks"])
              [] a[1] = StatusOK /\ v = "error" ->
                    MergeAgain([h1 EXCEPT !.wErr = "status check failed"])
              [] a[1] = StatusOK /\ v = "ok" ->
                    MergeProceed(h1)
              [] OTHER ->
                    IF wAttempt + 1 < checksMaxAttempts
                    THEN /\ fpc' = "wGet" /\ diag' = diag
                         /\ wAttempt' = wAttempt + 1
                         /\ h' = [h1 EXCEPT !.sleep = PollSleep(wAttempt)]
                         /\ UNCHANGED <<attempt, pl>>
                    ELSE MergeAgain([h1 EXCEPT
                            !.sleep = PollSleep(wAttempt),
                            !.polls = wAttempt + 1,
                            !.wErr =
                            "status checks did not complete after 60 attempts"])
    /\ UNCHANGED <<sys, remoteVars, prState, cfg, tfPresent, tfState,
                   afterDelete, fop, model, optsSHA, err, warned>>

\* mergeWhenReady: the approving review; its failure is only logged
PRReview ==
    /\ sys = "pr" /\ fpc = "review"
    /\ \E st \in {StatusOK} \cup PRWriteFaults :
        MergeGoto(Log(h, "review", st, st = StatusOK), "repoGet")
    /\ UNCHANGED <<sys, remoteVars, prState, cfg, tfPresent, tfState,
                   afterDelete, fop, model, optsSHA, err, warned>>

\* the switch on mergeMethod against the repository's settings: the method
\* to use, or "" when neither it nor an alternative is allowed
ValidateMethod(m, allows) ==
    LET first(seq) ==
            IF seq[1] \in allows THEN seq[1]
            ELSE IF seq[2] \in allows THEN seq[2] ELSE ""
    IN  CASE m \in allows -> m
          [] m \notin allows /\ m = "squash" -> first(<<"merge", "rebase">>)
          [] m \notin allows /\ m = "rebase" -> first(<<"merge", "squash">>)
          [] OTHER                           -> first(<<"squash", "rebase">>)

\* mergeWhenReady: plan.MergeMethod, Repositories.Get and the validation of
\* the method; a failed Get leaves the method unvalidated
PRRepoGet ==
    /\ sys = "pr" /\ fpc = "repoGet"
    /\ \E m \in MergeMethods :
       \E a \in {<<StatusOK, al>> : al \in SUBSET MergeMethods}
            \cup {<<f, {}>> : f \in {StatusNotFound} \cup ReadFaults} :
        LET h1 == Log(h, "repoGet", a[1], FALSE)
            mm == IF a[1] = StatusOK THEN ValidateMethod(m, a[2]) ELSE m
        IN  IF mm = ""
            THEN MergeReturn(h1, "merge method is not allowed")
            ELSE /\ fpc' = "merge" /\ diag' = diag /\ h' = h1
                 /\ pl' = [method |-> mm, allows |-> a[2],
                           repo |-> (a[1] = StatusOK)]
                 /\ UNCHANGED <<attempt, wAttempt>>
    /\ UNCHANGED <<sys, remoteVars, prState, cfg, tfPresent, tfState,
                   afterDelete, fop, model, optsSHA, err, warned>>

\* PullRequests.Merge: accepted for an open pull request
MergeAnswers ==
    {IF prState = "open" THEN StatusOK ELSE StatusMethodNotAllowed}
        \cup {StatusMethodNotAllowed, StatusConflict} \cup PRWriteFaults

\* the method mergeWhenReady tries after a 405: the first allowed one other
\* than the one that failed, or ""
AltMethod(m, allows) ==
    CASE m # "merge" /\ "merge" \in allows                      -> "merge"
      [] ~(m # "merge" /\ "merge" \in allows)
            /\ m # "squash" /\ "squash" \in allows              -> "squash"
      [] ~(m # "merge" /\ "merge" \in allows)
            /\ ~(m # "squash" /\ "squash" \in allows)
            /\ m # "rebase" /\ "rebase" \in allows              -> "rebase"
      [] OTHER                                                  -> ""

\* mergeWhenReady after a merge call went through: plan.AutoDeleteBranch
PRMerged(hh) ==
    /\ prState' = "merged"
    /\ \E del \in BOOLEAN :
        IF del
        THEN /\ fpc' = "deleteRef" /\ diag' = diag /\ h' = hh
             /\ pl' = NoLocals /\ UNCHANGED <<attempt, wAttempt>>
        ELSE MergeReturn(hh, "")

\* mergeWhenReady: PullRequests.Merge with the validated method
PRMerge ==
    /\ sys = "pr" /\ fpc = "merge"
    /\ \E st \in MergeAnswers :
        LET h1  == [Log(h, "merge", st, st = StatusOK) EXCEPT
                       !.merges = @ + 1]
            alt == IF pl.repo THEN AltMethod(pl.method, pl.allows) ELSE ""
        IN  CASE st = StatusOK ->
                    PRMerged(h1)
              [] st = StatusMethodNotAllowed /\ alt # "" ->
                    /\ fpc' = "merge2" /\ diag' = diag /\ h' = h1
                    /\ pl' = [pl EXCEPT !.method = alt]
                    /\ UNCHANGED <<prState, attempt, wAttempt>>
              [] OTHER ->
                    /\ MergeReturn(h1, "unable to merge pull request")
                    /\ prState' = prState
    /\ UNCHANGED <<sys, remoteVars, cfg, tfPresent, tfState,
                   afterDelete, fop, model, optsSHA, err, warned>>

\* mergeWhenReady: the merge call with the alternative method
PRMergeAlt ==
    /\ sys = "pr" /\ fpc = "merge2"
    /\ \E st \in MergeAnswers :
        LET h1 == [Log(h, "merge2", st, st = StatusOK) EXCEPT
                      !.merges = @ + 1]
        IN  IF st = StatusOK
            THEN PRMerged(h1)
            ELSE /\ MergeReturn(h1, "unable to merge pull request")
                 /\ prState' = prState
    /\ UNCHANGED <<sys, remoteVars, cfg, tfPresent, tfState,
                   afterDelete, fop, model, optsSHA, err, warned>>

\* mergeWhenReady: Git.DeleteRef of the head branch; its failure is only logged
PRDeleteRef ==
    /\ sys = "pr" /\ fpc = "deleteRef"
    /\ \E st \in {IF rExists["source"] THEN StatusOK
                  ELSE StatusUnprocessableEntity} \cup PRWriteFaults :
        /\ MergeReturn(Log(h, "deleteRef", st, st = StatusOK), "")
        /\ rExists' = IF st = StatusOK
                      THEN [rExists EXCEPT !["source"] = FALSE] ELSE rExists
    /\ UNCHANGED <<sys, rFileAt, extCount, rRepo, prState, cfg, tfPresent, tfState,
                   afterDelete, fop, model, optsSHA, err, warned>>

\* readPullRequest, and what Create, Read and Update do after it
PRRead ==
    /\ sys = "pr" /\ fpc = "prRead"
    /\ \E a \in PRGetAnswers :
        LET h1 == Log(h, "prRead", a.st, FALSE)
            m1 == CASE a.st = StatusNotFound -> [model EXCEPT !.id = Empty]
                    [] a.st = StatusOK ->
                         [model EXCEPT !.state = a.state, !.merged = a.merged]
                    [] OTHER -> model
            m2 == IF fop = "Read" /\ m1.state = "closed" /\ ~m1.merged
                  THEN [m1 EXCEPT !.id = Empty] ELSE m1
        IN  IF a.st \notin {StatusOK, StatusNotFound}
            THEN /\ PRFail("Error reading pull request") /\ h' = h1
                 /\ UNCHANGED <<model, tfState, tfPresent>>
            ELSE /\ fpc' = "done" /\ diag' = diag
                 /\ model' = m2 /\ tfState' = m2 /\ tfPresent' = TRUE
                 /\ h' = LogSet(h1)
    /\ UNCHANGED <<sys, remoteVars, prVars, cfg, afterDelete, fop, optsSHA,
                   attempt, err, warned>>

\* Update: PullRequests.Edit, then auto-merge when merge_when_ready was
\* switched on
PREdit ==
    /\ sys = "pr" /\ fpc = "prEdit"
    /\ \E st \in {StatusOK, StatusNotFound} \cup PRWriteFaults :
        /\ h' = Log(h, "prEdit", st, st = StatusOK)
        /\ IF st = StatusOK
           THEN /\ fpc' = IF model.mwr # tfState.mwr /\ model.mwr
                          THEN "mGet" ELSE "prRead"
                /\ diag' = diag
           ELSE PRFail("Error updating pull request")
    /\ UNCHANGED <<sys, remoteVars, prVars, cfg, tfPresent, tfState,
                   afterDelete, fop, model, optsSHA, attempt, err, warned>>

\* Delete: PullRequests.Get; a pull request that is gone, merged or closed
\* needs no further call
PRDeleteGet ==
    /\ sys = "pr" /\ fpc = "dGet"
    /\ \E a \in PRGetAnswers :
        /\ h' = Log(h, "dGet", a.st, FALSE)
        /\ CASE a.st = StatusNotFound ->
                    fpc' = "done" /\ diag' = diag /\ tfPresent' = FALSE
             [] a.st \notin {StatusOK, StatusNotFound} ->
                    PRFail("Error reading pull request")
                    /\ tfPresent' = tfPresent
             [] a.st = StatusOK /\ (a.merged \/ a.state # "open") ->
                    fpc' = "done" /\ diag' = diag /\ tfPresent' = FALSE
             [] OTHER ->
                    fpc' = "dClose" /\ diag' = diag /\ tfPresent' = tfPresent
    /\ UNCHANGED <<sys, remoteVars, prVars, cfg, tfState, afterDelete, fop,
                   model, optsSHA, attempt, err, warned>>

\* Delete: PullRequests.Edit(state closed)
PRDeleteClose ==
    /\ sys = "pr" /\ fpc = "dClose"
    /\ \E st \in {IF prState = "open" THEN StatusOK
                  ELSE StatusUnprocessableEntity} \cup PRWriteFaults :
        /\ h' = Log(h, "dClose", st, st = StatusOK)
        /\ IF st = StatusOK
           THEN /\ prState' = "closed" /\ tfPresent' = FALSE
                /\ fpc' = "done" /\ diag' = diag
           ELSE /\ PRFail("Error closing pull request")
                /\ UNCHANGED <<prState, tfPresent>>
    /\ UNCHANGED <<sys, remoteVars, wAttempt, pl, cfg, tfState, afterDelete,
                   fop, model, optsSHA, attempt, err, warned>>

\* the handler returns to the framework
PRReturn ==
    /\ sys = "pr" /\ fpc = "done"
    /\ fpc' = "idle" /\ fop' = "none"
    /\ h' = H0 /\ diag' = "" /\ attempt' = 0 /\ wAttempt' = 0
    /\ pl' = NoLocals /\ model' = PRNull
    /\ afterDelete' = (fop = "Delete" /\ diag = "" /\ ~h.disturbed
                        /\ DeletedRemotely)
    /\ UNCHANGED <<sys, remoteVars, prState, cfg, tfPresent, tfState,
                   optsSHA, err, warned>>

\* somebody else opens, closes, reopens or merges the pull request between
\* two handlers (while a handler runs, what the remote answers about
\* mergeability, statuses and merge requests is arbitrary as it is)
PRExternal ==
    /\ sys = "pr" /\ fpc = "idle" /\ extCount < MaxExternal
    /\ extCount' = extCount + 1
    /\ \E v \in CASE prState = "none"   -> {"open"}
                  [] prState = "open"   -> {"closed", "merged"}
                  [] prState = "closed" -> {"open"}
                  [] OTHER              -> {} :
        prState' = v
    /\ afterDelete' = FALSE
    /\ UNCHANGED <<sys, rRepo, rExists, rFileAt, wAttempt, pl, cfg, tfPresent,
                   tfState, fop, fpc, model, optsSHA, attempt, err, diag,
                   warned, h>>

PRInit ==
    /\ sys = "pr"
    /\ rExists = [b \in Branches |-> TRUE]
    /\ rFileAt = [b \in Branches |-> 0]
    /\ prState \in {"none", "open", "closed", "merged"}
    /\ extCount = 0 /\ rRepo = NoRepo
    /\ cfg = "pr"
    /\ tfPresent = FALSE /\ tfState = PRNull /\ afterDelete = FALSE
    /\ fop = "none" /\ fpc = "idle" /\ model = PRNull
    /\ optsSHA = NoSHA /\ attempt = 0 /\ wAttempt = 0 /\ pl = NoLocals
    /\ err = 0 /\ diag = "" /\ warned = FALSE /\ h = H0

PRNext ==
    \/ \E op \in {"Create", "Read", "Update", "Delete"} : \E p \in PRPlans :
            PRBegin(op, p)
    \/ PRList
    \/ PRReopen
    \/ PRGetBase
    \/ PRGetHead
    \/ PRCreate
    \/ PRMergeGet
    \/ PRChecksGet
    \/ PRChecksList
    \/ PRReview
    \/ PRRepoGet
    \/ PRMerge
    \/ PRMergeAlt
    \/ PRDeleteRef
    \/ PRRead
    \/ PREdit
    \/ PRDeleteGet
    \/ PRDeleteClose
    \/ PRReturn
    \/ PRExternal

(***************************************************************************)
(* Branch resource: src/internal/provider/data_source_repository.go        *)
(***************************************************************************)
\* branch names: the resource's branch, the name it is renamed to, and the
\* default source branch "main"
BName == <<"b">>
BRenamed == <<"c">>
BMain == <<"m">>

buildTwoPartID(part1, part2) == part1 \o <<":">> \o part2

\* parseTwoPartID: <<ok, part1, part2>>; colon first, then slash
parseTwoPartID(id) ==
    LET byColon == SplitN2(id, ":")
        bySlash == SplitN2(id, "/")
    IN  IF Contains(id, ":") /\ Len(byColon) = 2
        THEN <<TRUE, byColon[1], byColon[2]>>
        ELSE IF Len(bySlash) = 2
        THEN <<TRUE, bySlash[1], bySlash[2]>>
        ELSE <<FALSE, Empty, Empty>>

BSource == <<"s">>

\* state attributes: source_sha is NoSHA (null), the commit given in the
\* configuration, or the tip Create looked up
BranchNull == [id |-> Empty, branch |-> Empty, srcSha |-> NoSHA,
               source |-> Empty]

\* the plan: branch, source_sha given or not, source_branch given or not
BranchPlans == [branch : {BName, BRenamed}, srcSha : BOOLEAN,
                source : {Empty, BSource}]

\* no handler is running
BranchNoPlan == [branch |-> Empty, srcSha |-> FALSE, source |-> Empty]

\* the branch to start from: source_branch, "main" when empty
SourceBranchOf(configured) ==
    IF configured = Empty THEN BMain ELSE configured

\* ref.Object.SHA of the source branch
BranchTip(name) == IF name = BMain THEN MainTip ELSE SourceTip

\* faulty variant: the source branch is looked up whatever source_sha says
CreateFirstCall_lookup(srcSha) == "bGetSource"

\* Create: with a source_sha the source branch is not looked up
CreateFirstCall(srcSha) ==
    IF srcSha # NoSHA THEN "bCreateRef" ELSE "bGetSource"

\* Git.GetRef of refs/heads/<name>; 304 is the conditional request's answer
BranchRefAnswers(name) ==
    {IF rExists[name] THEN StatusOK ELSE StatusNotFound}
        \cup {StatusNotModified} \cup ReadFaults

BranchFail(d) == fpc' = "done" /\ diag' = d

\* the handlers up to their first remote call
BranchBegin(op, p) ==
    /\ sys = "branch" /\ fpc = "idle"
    /\ CASE op = "Create" -> ~tfPresent
         [] op = "Delete" -> tfPresent \/ afterDelete
         [] OTHER         -> tfPresent
    /\ fop' = op
    /\ h' = [H0 EXCEPT !.rerun = (op = "Delete" /\ afterDelete)]
    /\ afterDelete' = (op = "Delete" /\ afterDelete)
    /\ tfState' = IF op = "Create" THEN BranchNull ELSE tfState
    /\ LET parsed == parseTwoPartID(tfState.id)
       IN  CASE op = "Create" ->
                  /\ model' = [id |-> Unknown, branch |-> p.branch,
                               srcSha |-> IF p.srcSha THEN ExplicitCommit
                                          ELSE NoSHA,
                               source |-> p.source]
                  /\ diag' = ""
                  /\ fpc' = CreateFirstCall(IF p.srcSha THEN ExplicitCommit
                                            ELSE NoSHA)
             [] op # "Create" /\ ~parsed[1] ->
                  /\ model' = tfState
                  /\ BranchFail("Invalid ID")
             [] op = "Update" /\ parsed[1] ->
                  /\ model' = [id |-> tfState.id, branch |-> p.branch,
                               srcSha |-> tfState.srcSha,
                               source |-> tfState.source]
                  /\ diag' = ""
                  /\ fpc' = IF p.branch # tfState.branch THEN "bRename"
                            ELSE "bRead"
             [] OTHER ->
                  /\ model' = tfState
                  /\ diag' = ""
                  /\ fpc' = IF op = "Read" THEN "bRead" ELSE "bDelete"
    /\ cfg' = p
    /\ UNCHANGED <<sys, remoteVars, prVars, tfPresent, optsSHA, attempt,
                   err, warned>>

\* Create without source_sha: Git.GetRef of the source branch
BranchGetSource ==
    /\ sys = "branch" /\ fpc = "bGetSource"
    /\ \E st \in BranchRefAnswers(SourceBranchOf(model.source))
                    \ {StatusNotModified} :
        /\ h' = Log(h, "bGetSource", st, FALSE)
        /\ IF st = StatusOK
           THEN /\ fpc' = "bCreateRef" /\ diag' = diag
                \* plan.SourceSHA = sourceBranchSHA
                /\ model' = [model EXCEPT !.srcSha =
                                BranchTip(SourceBranchOf(model.source))]
           ELSE /\ BranchFail("Error querying source branch")
                /\ model' = model
    /\ UNCHANGED <<sys, remoteVars, prVars, cfg, tfPresent, tfState,
                   afterDelete, fop, optsSHA, attempt, err, warned>>

\* Create: Git.CreateRef; "422 Reference already exists" counts as created
BranchCreateRef ==
    /\ sys = "branch" /\ fpc = "bCreateRef"
    /\ \E a \in {IF rExists[model.branch]
                 THEN <<StatusUnprocessableEntity, "Reference already exists">>
                 ELSE <<StatusOK, "">>}
            \cup {<<f, "">> : f \in PRWriteFaults} :
        /\ h' = [Log(h, "bCreateRef", a[1], a[1] = StatusOK) EXCEPT
                    !.lastMsg = a[2],
                    !.createdFrom = IF a[1] # StatusOK THEN @
                                    ELSE model.srcSha]
        /\ rExists' = IF a[1] = StatusOK
                      THEN [rExists EXCEPT ![model.branch] = TRUE]
                      ELSE rExists
        /\ IF a[1] = StatusOK \/ a[2] = "Reference already exists"
           THEN /\ model' = [model EXCEPT
                                !.id = buildTwoPartID(repoName, model.branch)]
                /\ fpc' = "bRead" /\ diag' = diag
           ELSE /\ BranchFail("Error creating branch")
                /\ model' = model
    /\ UNCHANGED <<sys, rFileAt, extCount, rRepo, prVars, cfg, tfPresent, tfState,
                   afterDelete, fop, optsSHA, attempt, err, warned>>

\* Update of the branch name: Repositories.RenameBranch
BranchRename ==
    /\ sys = "branch" /\ fpc = "bRename"
    /\ LET old == parseTwoPartID(tfState.id)[3]
       IN  \E st \in {IF rExists[old] /\ ~rExists[model.branch] THEN StatusOK
                      ELSE IF rExists[old] THEN StatusUnprocessableEntity
                      ELSE StatusNotFound} \cup PRWriteFaults :
            /\ h' = Log(h, "bRename", st, st = StatusOK)
            /\ IF st = StatusOK
               THEN /\ rExists' = [rExists EXCEPT ![old] = FALSE,
                                                  ![model.branch] = TRUE]
                    /\ model' = [model EXCEPT
                                !.id = buildTwoPartID(repoName, model.branch)]
                    /\ fpc' = "bRead" /\ diag' = diag
               ELSE /\ BranchFail("Error renaming branch")
                    /\ UNCHANGED <<rExists, model>>
    /\ UNCHANGED <<sys, rFileAt, extCount, rRepo, prVars, cfg, tfPresent, tfState,
                   afterDelete, fop, optsSHA, attempt, err, warned>>

\* Read: an id without a colon is rewritten in the new format
MigrateID(id, repo, branch) ==
    IF ~Contains(id, ":") THEN buildTwoPartID(repo, branch) ELSE id

\* readBranch, and what Create, Read and Update do after it
BranchRead ==
    /\ sys = "branch" /\ fpc = "bRead"
    /\ LET parsed == parseTwoPartID(tfState.id)
           repo   == IF fop = "Create" THEN repoName ELSE parsed[2]
           name   == IF fop = "Read" THEN parsed[3] ELSE model.branch
       IN  \E st \in BranchRefAnswers(name) :
            LET h1 == Log(h, "bRead", st, FALSE)
                m1 == CASE st = StatusNotFound -> [model EXCEPT !.id = Empty]
                        [] st = StatusOK ->
                             [model EXCEPT !.id = buildTwoPartID(repo, name),
                                           !.branch = name]
                        [] OTHER -> model
                m2 == IF fop = "Read"
                      THEN [m1 EXCEPT !.id = MigrateID(m1.id, repo, name)]
                      ELSE m1
            IN  IF st \notin {StatusOK, StatusNotFound, StatusNotModified}
                THEN /\ BranchFail("Error reading branch") /\ h' = h1
                     /\ UNCHANGED <<model, tfState, tfPresent>>
                ELSE /\ fpc' = "done" /\ diag' = diag
                     /\ model' = m2 /\ tfState' = m2 /\ tfPresent' = TRUE
                     /\ h' = LogSet(h1)
    /\ UNCHANGED <<sys, remoteVars, prVars, cfg, afterDelete, fop, optsSHA,
                   attempt, err, warned>>

\* faulty variant: only a 404 counts
RefIsGone_only404(st, msg) == st = StatusNotFound

\* the answer tells that the reference is already gone
RefIsGone(st, msg) ==
    \/ st = StatusNotFound
    \/ st = StatusUnprocessableEntity /\ msg = "Reference does not exist"

\* Delete: Git.DeleteRef
BranchDelete ==
    /\ sys = "branch" /\ fpc = "bDelete"
    /\ LET name == parseTwoPartID(tfState.id)[3]
       IN  \E a \in (IF rExists[name] THEN {<<StatusOK, "">>}
                     ELSE {<<StatusNotFound, "">>,
                           <<StatusUnprocessableEntity,
                             "Reference does not exist">>})
                \cup {<<f, "">> : f \in PRWriteFaults} :
            /\ h' = [Log(h, "bDelete", a[1], a[1] = StatusOK) EXCEPT
                        !.lastMsg = a[2]]
            /\ rExists' = IF a[1] = StatusOK
                          THEN [rExists EXCEPT ![name] = FALSE] ELSE rExists
            /\ IF a[1] = StatusOK \/ RefIsGone(a[1], a[2])
               THEN fpc' = "done" /\ diag' = diag /\ tfPresent' = FALSE
               ELSE BranchFail("Error deleting branch")
                    /\ tfPresent' = tfPresent
    /\ UNCHANGED <<sys, rFileAt, extCount, rRepo, prVars, cfg, tfState, afterDelete,
                   fop, model, optsSHA, attempt, err, warned>>

\* the handler returns to the framework
BranchReturn ==
    /\ sys = "branch" /\ fpc = "done"
    /\ fpc' = "idle" /\ fop' = "none"
    /\ h' = H0 /\ diag' = "" /\ model' = BranchNull /\ cfg' = BranchNoPlan
    /\ afterDelete' = (fop = "Delete" /\ diag = "" /\ ~h.disturbed
                        /\ DeletedRemotely)
    /\ UNCHANGED <<sys, remoteVars, prVars, tfPresent, tfState, optsSHA,
                   attempt, err, warned>>

\* somebody else deletes or creates one of the two branches
BranchExternal ==
    /\ sys = "branch" /\ extCount < MaxExternal
    /\ extCount' = extCount + 1
    /\ \E name \in {BName, BRenamed} :
        rExists' = [rExists EXCEPT ![name] = ~@]
    /\ afterDelete' = FALSE
    /\ h' = [h EXCEPT !.disturbed = (fpc # "idle")]
    /\ UNCHANGED <<sys, rRepo, rFileAt, prVars, cfg, tfPresent, tfState, fop, fpc,
                   model, optsSHA, attempt, err, diag, warned>>

\* no state yet, or the state an earlier provider version wrote, with the
\* id in the old format
BranchInit ==
    /\ sys = "branch"
    /\ rExists \in [{BName, BRenamed, BMain, BSource} -> BOOLEAN]
    /\ rExists[BMain] /\ rExists[BSource]
    /\ rFileAt = [b \in Branches |-> 0]
    /\ prState = "none" /\ extCount = 0 /\ rRepo = NoRepo /\ cfg = BranchNoPlan
    /\ \/ tfPresent = FALSE /\ tfState = BranchNull
       \/ /\ tfPresent = TRUE
          /\ tfState = [id |-> repoName \o <<"/">> \o BName,
                        branch |-> BName, srcSha |-> NoSHA,
                        source |-> Empty]
    /\ afterDelete = FALSE
    /\ fop = "none" /\ fpc = "idle" /\ model = BranchNull
    /\ optsSHA = NoSHA /\ attempt = 0 /\ wAttempt = 0 /\ pl = NoLocals
    /\ err = 0 /\ diag = "" /\ warned = FALSE /\ h = H0

BranchNext ==
    \/ \E op \in {"Create", "Read", "Update", "Delete"} :
         \E p \in BranchPlans : BranchBegin(op, p)
    \/ BranchGetSource
    \/ BranchCreateRef
    \/ BranchRename
    \/ BranchRead
    \/ BranchDelete
    \/ BranchReturn
    \/ BranchExternal


(***************************************************************************)
(* Repository resource, Update:                                            *)
(* src/internal/provider/resource_repository.go                            *)
(***************************************************************************)
\* what the plan changes: attributes sent with Repositories.Edit, the
\* topics, the pages block (absent, unchanged, changed), the alerts flag
RepoPlans == [edit : BOOLEAN, topics : BOOLEAN,
              pages : {"null", "same", "changed"}, alerts : BOOLEAN]

\* no Update is running
RepoNoPlan ==
    [edit |-> FALSE, topics |-> FALSE, pages |-> "null", alerts |-> FALSE]

RepoNull == [id |-> Empty]

\* the position of the next remote call of Update after position pc
RepoAfter(pc, p) ==
    LET order == <<"rEdit", "rTopics", "rPages", "rAlerts", "rRead">>
        due(c) == CASE c = "rEdit"   -> p.edit
                    [] c = "rTopics" -> p.topics
                    [] c = "rPages"  -> p.pages = "changed"
                    [] c = "rAlerts" -> p.alerts
                    [] OTHER         -> TRUE
        from == IF pc = "idle" THEN 1
                ELSE 1 + CHOOSE i \in 1..5 : order[i] = pc
    IN  order[CHOOSE i \in from..5 :
                 due(order[i]) /\ \A j \in from..(i - 1) : ~due(order[j])]

\* Update starts: the request is built from plan and state
RepoBegin(p) ==
    /\ sys = "repo" /\ fpc = "idle" /\ tfPresent
    /\ fop' = "Update" /\ cfg' = p
    /\ h' = H0 /\ diag' = "" /\ warned' = FALSE
    /\ model' = tfState
    /\ fpc' = RepoAfter("idle", p)
    /\ UNCHANGED <<sys, remoteVars, prVars, tfPresent, tfState, afterDelete,
                   optsSHA, attempt, err>>

\* a call of Update whose failure is not an error diagnostic: a warning,
\* unless the status is one of quiet
RepoLenient(site, answers, quiet) ==
    /\ sys = "repo" /\ fpc = site
    /\ \E st \in answers :
        /\ h' = Log(h, site, st, st = StatusOK)
        /\ warned' = (warned \/ st \notin quiet)
    /\ fpc' = RepoAfter(site, cfg)
    /\ UNCHANGED <<sys, remoteVars, prVars, cfg, tfPresent, tfState,
                   afterDelete, fop, model, optsSHA, attempt, err, diag>>

RepoWriteAnswers == {StatusOK, StatusNotFound} \cup PRWriteFaults

\* the one error of Repositories.Edit that Update lets through
EditTolerated(st, msg) ==
    st = StatusUnprocessableEntity /\ msg = "Privacy is already set"

\* Update: Repositories.Edit
RepoEdit ==
    /\ sys = "repo" /\ fpc = "rEdit"
    /\ \E a \in {<<st, "">> : st \in RepoWriteAnswers}
            \cup {<<StatusUnprocessableEntity, "Privacy is already set">>} :
        /\ h' = [Log(h, "rEdit", a[1], a[1] = StatusOK) EXCEPT
                    !.lastMsg = a[2]]
        /\ IF a[1] = StatusOK \/ EditTolerated(a[1], a[2])
           THEN fpc' = RepoAfter("rEdit", cfg) /\ diag' = diag
           ELSE fpc' = "done" /\ diag' = "Error updating repository"
    /\ UNCHANGED <<sys, remoteVars, prVars, cfg, tfPresent, tfState,
                   afterDelete, fop, model, optsSHA, attempt, err, warned>>

\* Update: Repositories.ReplaceAllTopics; an error becomes a warning
RepoTopics ==
    RepoLenient("rTopics", RepoWriteAnswers, {StatusOK})

\* Update: updatePages; a 404 is logged, another error becomes a warning
RepoPages ==
    RepoLenient("rPages", RepoWriteAnswers, {StatusOK, StatusNotFound})

\* Update: updateVulnerabilityAlerts; an error becomes a warning
RepoAlerts ==
    RepoLenient("rAlerts", RepoWriteAnswers, {StatusOK})

\* Update: readRepository up to the answer of Repositories.Get
RepoRead ==
    /\ sys = "repo" /\ fpc = "rRead"
    /\ \E st \in {StatusOK, StatusNotFound} \cup ReadFaults :
        /\ h' = Log(h, "rRead", st, FALSE)
        /\ IF st # StatusOK
           THEN fpc' = "done" /\ diag' = "Error reading repository"
           ELSE fpc' = "rAlertsGet" /\ diag' = diag
    /\ UNCHANGED <<sys, remoteVars, prVars, cfg, tfPresent, tfState,
                   afterDelete, fop, model, optsSHA, attempt, err, warned>>

\* readRepository: Repositories.GetVulnerabilityAlerts; a 404 reads as
\* "disabled", another error becomes a warning; with no pages in the plan
\* Update goes on to State.Set
RepoAlertsGet ==
    /\ sys = "repo" /\ fpc = "rAlertsGet"
    /\ \E st \in {StatusOK, StatusNotFound} \cup ReadFaults :
        /\ h' = IF cfg.pages = "null"
                THEN LogSet(Log(h, "rAlertsGet", st, FALSE))
                ELSE Log(h, "rAlertsGet", st, FALSE)
        /\ warned' = (warned \/ st \notin {StatusOK, StatusNotFound})
    /\ fpc' = IF cfg.pages = "null" THEN "done" ELSE "rPagesInfo"
    /\ UNCHANGED <<sys, remoteVars, prVars, cfg, tfPresent, tfState,
                   afterDelete, fop, model, optsSHA, attempt, err, diag>>

\* Update: Repositories.GetPagesInfo, whose error is ignored, then State.Set
RepoPagesInfo ==
    /\ sys = "repo" /\ fpc = "rPagesInfo"
    /\ \E st \in {StatusOK, StatusNotFound} \cup ReadFaults :
        h' = LogSet(Log(h, "rPagesInfo", st, FALSE))
    /\ fpc' = "done"
    /\ UNCHANGED <<sys, remoteVars, prVars, cfg, tfPresent, tfState,
                   afterDelete, fop, model, optsSHA, attempt, err, diag,
                   warned>>

\* the handler returns to the framework
RepoReturn ==
    /\ sys = "repo" /\ fpc = "done"
    /\ fpc' = "idle" /\ fop' = "none" /\ cfg' = RepoNoPlan
    /\ h' = H0 /\ diag' = "" /\ warned' = FALSE /\ model' = RepoNull
    /\ UNCHANGED <<sys, remoteVars, prVars, tfPresent, tfState, afterDelete,
                   optsSHA, attempt, err>>

\* the repository is in state, as Create left it
RepoInit ==
    /\ sys = "repo"
    /\ rExists = [b \in Branches |-> TRUE]
    /\ rFileAt = [b \in Branches |-> 0]
    /\ prState = "none" /\ extCount = 0 /\ rRepo = NoRepo /\ cfg = RepoNoPlan
    /\ tfPresent = TRUE /\ tfState = [id |-> repoName]
    /\ afterDelete = FALSE
    /\ fop = "none" /\ fpc = "idle" /\ model = RepoNull
    /\ optsSHA = NoSHA /\ attempt = 0 /\ wAttempt = 0 /\ pl = NoLocals
    /\ err = 0 /\ diag = "" /\ warned = FALSE /\ h = H0

RepoNext ==
    \/ \E p \in RepoPlans : RepoBegin(p)
    \/ RepoEdit
    \/ RepoTopics
    \/ RepoPages
    \/ RepoAlerts
    \/ RepoRead
    \/ RepoAlertsGet
    \/ RepoPagesInfo
    \/ RepoReturn

(***************************************************************************)
(* Repository resource, Read and Delete:                                   *)
(* src/internal/provider/resource_repository.go                            *)
(***************************************************************************)
\* types.BoolValue as the state holds it ("null": types.BoolNull)
BoolValue(b) == IF b THEN "true" ELSE "false"
\* readRepository: the model after a successful Repositories.Get
readRepository(m, repo) ==
    [m EXCEPT !.id          = repoName,
              !.description = repo.description,
              !.hasWiki     = BoolValue(repo.hasWiki),
              !.archived    = BoolValue(repo.archived),
              !.pages       = "null"]

\* Read: a has_* value already in state is put back over the one just read
KeepExisting(existing, fresh) ==
    IF existing # "null" THEN existing ELSE fresh

\* faulty variant: Delete always deletes the repository
DeleteStep_always(archiveOnDestroy, archived) == "rdDelete"

\* Delete: the remote call to make, "done" when there is none
DeleteStep(archiveOnDestroy, archived) ==
    IF archiveOnDestroy
    THEN (IF archived THEN "done" ELSE "rdArchive")
    ELSE "rdDelete"

rdFrame == <<sys, rExists, rFileAt, prVars, cfg, afterDelete, optsSHA,
             attempt, err>>

\* Read and Delete up to the first remote call
RDBegin(op) ==
    /\ sys = "rd" /\ fpc = "idle" /\ tfPresent
    /\ fop' = op /\ h' = H0 /\ warned' = FALSE
    /\ model' = tfState
    /\ IF op = "Read"
       THEN /\ fpc' = IF tfState.id = Empty THEN "done" ELSE "rdGet"
            /\ diag' = IF tfState.id = Empty THEN "Missing Repository Name"
                       ELSE ""
            /\ tfPresent' = tfPresent
       ELSE /\ fpc' = DeleteStep(tfState.archiveOnDestroy = "true",
                                 tfState.archived = "true")
            /\ diag' = ""
            \* "nothing to do on delete": the handler returns without error
            /\ tfPresent' = (fpc' # "done")
    /\ UNCHANGED <<rdFrame, extCount, rRepo, tfState>>

\* Read: readRepository up to the answer of Repositories.Get
RDGet ==
    /\ sys = "rd" /\ fpc = "rdGet"
    /\ \E st \in {IF rRepo.exists THEN StatusOK ELSE StatusNotFound}
                    \cup ReadFaults :
        /\ h' = [Log(h, "rdGet", st, FALSE) EXCEPT !.disturbed = FALSE]
        /\ IF st = StatusOK
           THEN /\ model' = readRepository(model, rRepo)
                /\ fpc' = "rdAlertsGet" /\ diag' = diag
           ELSE /\ model' = model
                /\ fpc' = "done" /\ diag' = "Error reading repository"
    /\ UNCHANGED <<rdFrame, extCount, rRepo, tfState, tfPresent, fop, warned>>

\* Read: Repositories.GetVulnerabilityAlerts inside readRepository, then the
\* has_* values of the prior state are put back; without a pages block in
\* state Read goes on to State.Set
RDAlertsGet ==
    /\ sys = "rd" /\ fpc = "rdAlertsGet"
    /\ \E st \in {StatusOK, StatusNotFound} \cup ReadFaults :
        LET m1 == [model EXCEPT
                      !.hasWiki = KeepExisting(tfState.hasWiki, @),
                      !.pages   = tfState.pages]
            h1 == Log(h, "rdAlertsGet", st, FALSE)
        IN  /\ warned' = (warned \/ st \notin {StatusOK, StatusNotFound})
            /\ model' = m1
            /\ IF tfState.pages = "null"
               THEN /\ fpc' = "done" /\ h' = LogSet(h1)
                    /\ tfState' = m1
               ELSE /\ fpc' = "rdPagesInfo" /\ h' = h1
                    /\ tfState' = tfState
    /\ UNCHANGED <<rdFrame, extCount, rRepo, tfPresent, fop, diag>>

\* Read: Repositories.GetPagesInfo, whose error keeps the pages of the prior
\* state, then State.Set
RDPagesInfo ==
    /\ sys = "rd" /\ fpc = "rdPagesInfo"
    /\ \E st \in {StatusOK, StatusNotFound} \cup ReadFaults :
        h' = LogSet(Log(h, "rdPagesInfo", st, FALSE))
    /\ fpc' = "done" /\ tfState' = model
    /\ UNCHANGED <<rdFrame, extCount, rRepo, tfPresent, fop, model, diag,
                   warned>>

\* Delete with archive_on_destroy: Repositories.Edit with archived = true
RDArchive ==
    /\ sys = "rd" /\ fpc = "rdArchive"
    /\ \E st \in {IF rRepo.exists THEN StatusOK ELSE StatusNotFound}
                    \cup PRWriteFaults :
        /\ h' = [Log(h, "rdArchive", st, st = StatusOK) EXCEPT
                    !.writes = @ + 1]
        /\ rRepo' = IF st = StatusOK THEN [rRepo EXCEPT !.archived = TRUE]
                    ELSE rRepo
        /\ diag' = IF st = StatusOK THEN diag ELSE "Error archiving repository"
        /\ tfPresent' = (st # StatusOK)
    /\ fpc' = "done"
    /\ UNCHANGED <<rdFrame, extCount, tfState, fop, model, warned>>

\* Delete without archive_on_destroy: Repositories.Delete
RDDelete ==
    /\ sys = "rd" /\ fpc = "rdDelete"
    /\ \E st \in {IF rRepo.exists THEN StatusOK ELSE StatusNotFound}
                    \cup PRWriteFaults :
        /\ h' = [Log(h, "rdDelete", st, st = StatusOK) EXCEPT
                    !.writes = @ + 1]
        /\ rRepo' = IF st = StatusOK THEN [rRepo EXCEPT !.exists = FALSE]
                    ELSE rRepo
        /\ diag' = IF st = StatusOK THEN diag ELSE "Error deleting repository"
        /\ tfPresent' = (st # StatusOK)
    /\ fpc' = "done"
    /\ UNCHANGED <<rdFrame, extCount, tfState, fop, model, warned>>

\* the handler returns to the framework
RDReturn ==
    /\ sys = "rd" /\ fpc = "done"
    /\ fpc' = "idle" /\ fop' = "none"
    /\ h' = H0 /\ diag' = "" /\ warned' = FALSE /\ model' = tfState
    /\ UNCHANGED <<rdFrame, extCount, rRepo, tfPresent, tfState>>

\* somebody changes a setting of the repository, or deletes it
RDExternal ==
    /\ sys = "rd" /\ extCount < MaxExternal /\ rRepo.exists
    /\ extCount' = extCount + 1
    /\ \/ rRepo' = [rRepo EXCEPT !.hasWiki = ~@]
       \/ rRepo' = [rRepo EXCEPT !.archived = ~@]
       \/ \E d \in {<<"d">>, <<"e">>} \ {rRepo.description} :
            rRepo' = [rRepo EXCEPT !.description = d]
       \/ rRepo' = [rRepo EXCEPT !.exists = FALSE]
    /\ h' = [h EXCEPT !.disturbed = (fpc # "idle")]
    /\ UNCHANGED <<rdFrame, tfPresent, tfState, fop, fpc, model, diag, warned>>

\* the repository is in state as Create or an import left it: without an
\* import every has_* attribute has a value
RDInit ==
    /\ sys = "rd"
    /\ rExists = [b \in Branches |-> TRUE]
    /\ rFileAt = [b \in Branches |-> 0]
    /\ prState = "none" /\ extCount = 0 /\ cfg = RepoNoPlan
    /\ rRepo \in [exists : {TRUE}, archived : BOOLEAN, hasWiki : BOOLEAN,
                  description : {<<"d">>, <<"e">>}]
    /\ tfPresent = TRUE
    /\ tfState \in [id : {repoName},
                    archived : {BoolValue(rRepo.archived)},
                    archiveOnDestroy : {"true", "false"},
                    hasWiki : {"null", BoolValue(rRepo.hasWiki)},
                    description : {rRepo.description},
                    pages : {"null", "set"}]
    /\ afterDelete = FALSE
    /\ fop = "none" /\ fpc = "idle" /\ model = tfState
    /\ optsSHA = NoSHA /\ attempt = 0 /\ wAttempt = 0 /\ pl = NoLocals
    /\ err = 0 /\ diag = "" /\ warned = FALSE /\ h = H0

RDNext ==
    \/ \E op \in {"Read", "Delete"} : RDBegin(op)
    \/ RDGet
    \/ RDAlertsGet
    \/ RDPagesInfo
    \/ RDArchive
    \/ RDDelete
    \/ RDReturn
    \/ RDExternal

(***************************************************************************)
(* Configure of the resources and data sources, and splitRepoFullName      *)
(***************************************************************************)
\* longest full name passed to splitRepoFullName
MaxNameLen == 3

\* what the provider registers (Resources, DataSources)
Objects ==
    [class : {"resource"},
     name  : {"repository", "repository_branch", "repository_file",
              "repository_pull_request_auto_merge"}]
    \cup
    [class : {"data source"},
     name  : {"user", "repository", "repository_branch", "repository_file"}]

\* faulty variant: every Configure reports the resource summary
ConfigureSummary_resource(class) == "Unexpected Resource Configure Type"

\* summary of the diagnostic for provider data of another type
ConfigureSummary(class) ==
    IF class = "resource" THEN "Unexpected Resource Configure Type"
    ELSE "Unexpected Data Source Configure Type"

\* Configure on a new object: its fields afterwards and the diagnostic;
\* userDataSource has a client field only
Configure(obj, pd) ==
    CASE pd.type = "nil" ->
            [client |-> "nil", owner |-> Empty, diag |-> ""]
      [] pd.type \notin {"nil", "githubxClientData"} ->
            [client |-> "nil", owner |-> Empty,
             diag |-> ConfigureSummary(obj.class)]
      [] OTHER ->
            [client |-> pd.client,
             owner  |-> IF obj = [class |-> "data source", name |-> "user"]
                        THEN Empty ELSE pd.owner,
             diag   |-> ""]

\* faulty variant: the name is cut at the first separator only
Split_first(s, sep) == SplitN2(s, sep)

\* strings.Split(s, sep)
RECURSIVE Split(_, _)
Split(s, sep) ==
    LET i == IndexOf(s, sep)
    IN  IF i = 0 THEN <<s>>
        ELSE <<SubSeq(s, 1, i - 1)>> \o Split(SubSeq(s, i + 1, Len(s)), sep)

splitRepoFullName(fullName) ==
    LET parts == Split(fullName, "/")
    IN  IF Len(parts) # 2
        THEN [owner |-> Empty, repo |-> Empty, err |-> TRUE]
        ELSE [owner |-> parts[1], repo |-> parts[2], err |-> FALSE]

unitFrame == <<sys, remoteVars, prVars, tfPresent, tfState, afterDelete,
               optsSHA, attempt, err, warned, h>>

\* Configure is called on a new resource or data source
UnitConfigure ==
    /\ sys = "unit"
    /\ \E obj \in Objects :
       \E pd \in [type : {"nil", "string"}, client : {"nil"}, owner : {Empty}]
             \cup [type : {"githubxClientData"}, client : {"nil", "c"},
                   owner : {Empty, <<"o">>}] :
        LET res == Configure(obj, pd)
        IN  /\ cfg' = [call |-> "Configure", obj |-> obj, pd |-> pd,
                       fullName |-> Empty]
            /\ model' = [client |-> res.client, owner |-> res.owner,
                         repo |-> Empty, err |-> FALSE]
            /\ diag' = res.diag
    /\ fop' = "Configure" /\ fpc' = "done"
    /\ UNCHANGED unitFrame

\* splitRepoFullName is called
UnitSplit ==
    /\ sys = "unit"
    /\ \E n \in 0..MaxNameLen : \E name \in [1..n -> {"o", "r", "/"}] :
        LET res == splitRepoFullName(name)
        IN  /\ cfg' = [call |-> "splitRepoFullName",
                       obj |-> [class |-> "resource", name |-> "repository"],
                       pd |-> [type |-> "nil", client |-> "nil",
                               owner |-> Empty],
                       fullName |-> name]
            /\ model' = [client |-> "nil", owner |-> res.owner,
                         repo |-> res.repo, err |-> res.err]
    /\ diag' = "" /\ fop' = "splitRepoFullName" /\ fpc' = "done"
    /\ UNCHANGED unitFrame

UnitInit ==
    /\ sys = "unit"
    /\ rExists = [b \in Branches |-> TRUE]
    /\ rFileAt = [b \in Branches |-> 0]
    /\ prState = "none" /\ extCount = 0 /\ rRepo = NoRepo
    /\ cfg = [call |-> "none",
              obj |-> [class |-> "resource", name |-> "repository"],
              pd |-> [type |-> "nil", client |-> "nil", owner |-> Empty],
              fullName |-> Empty]
    /\ tfPresent = FALSE /\ tfState = NullState /\ afterDelete = FALSE
    /\ fop = "none" /\ fpc = "idle"
    /\ model = [client |-> "nil", owner |-> Empty, repo |-> Empty,
                err |-> FALSE]
    /\ optsSHA = NoSHA /\ attempt = 0 /\ wAttempt = 0 /\ pl = NoLocals
    /\ err = 0 /\ diag = "" /\ warned = FALSE /\ h = H0

UnitNext ==
    \/ UnitConfigure
    \/ UnitSplit

(***************************************************************************)
(* Provider (provider.go): Configure and the client it hands out           *)
(***************************************************************************)
\* hours a run is followed after Configure
MaxClock == 2
\* hours an installation token stays valid
TokenTTL == 1

\* what the provider block and the process environment hold; a token is
\* named after the place it comes from, "" is "not set"
ProviderConfigs ==
    [token : {"", "token"}, oauth : {"", "oauth_token"},
     env : {"", "GITHUB_TOKEN"}, cli : {"", "gh"},
     app : {"nil", "invalid", "valid"},
     insecure : {"no", "attribute", "GITHUB_INSECURE"},
     baseURL : {"ok", "unparsable"}, owner : {"", "o"}]

\* locals of Configure, the client data it stores, and the clock
ConfNull ==
    [token |-> "", cliRun |-> FALSE, appRun |-> FALSE, built |-> FALSE,
     cred |-> "", owner |-> "", issued |-> 0, now |-> 0,
     sent |-> "none", sentAge |-> 0]

\* what the handlers outside this section leave alone
confFrame ==
    <<sys, remoteVars, prVars, tfPresent, tfState, afterDelete, optsSHA,
      attempt, err, warned, h>>

\* steps 1 to 3 of the precedence: token, oauth_token, GITHUB_TOKEN
FirstToken(c) ==
    IF c.token # "" THEN c.token
    ELSE IF c.oauth # "" THEN c.oauth
    ELSE c.env

\* config.Insecure, else GITHUB_INSECURE == "true"
Insecure(c) == c.insecure # "no"

\* the credential the built http client attaches to a request: the oauth2
\* transport carries the token, and httpClient.Transport = tr replaces that
\* transport when insecure TLS is asked for
ClientCredential(token, insecure) ==
    IF token # "" /\ ~insecure THEN token ELSE ""

\* the token a request carries: the static token source never changes it
RequestToken(m) == m.cred

\* Configure from the http client on; Users.Get is called only when no
\* owner is configured and there is a token
ConfBuild(c, m) ==
    LET m1 == [m EXCEPT !.built = TRUE,
                        !.cred = ClientCredential(m.token, Insecure(c))]
    IN  IF c.owner = "" /\ m.token # ""
        THEN /\ model' = m1 /\ fpc' = "owner" /\ diag' = ""
        ELSE /\ model' = [m1 EXCEPT !.owner = c.owner]
             /\ fpc' = "ready" /\ diag' = ""

\* Configure from the base URL on, with the token of steps 1 to 4 in m
ConfAfterCLI(c, m) ==
    CASE c.baseURL = "unparsable" ->
            model' = m /\ fpc' = "done" /\ diag' = "Invalid Base URL"
      [] c.baseURL = "ok" /\ m.token = "" /\ c.app = "invalid" ->
            /\ model' = [m EXCEPT !.appRun = TRUE]
            /\ fpc' = "done" /\ diag' = "Invalid App ID"
      [] c.baseURL = "ok" /\ m.token = "" /\ c.app = "valid" ->
            /\ model' = [m EXCEPT !.appRun = TRUE]
            /\ fpc' = "app" /\ diag' = ""
      [] OTHER -> ConfBuild(c, m)

\* Configure up to its first call outside the process
ConfBegin ==
    /\ sys = "conf" /\ fpc = "idle"
    /\ fop' = "Configure"
    /\ LET m == [ConfNull EXCEPT !.token = FirstToken(cfg)]
       IN  IF m.token = ""
           THEN model' = m /\ fpc' = "cli" /\ diag' = ""
           ELSE ConfAfterCLI(cfg, m)
    /\ UNCHANGED <<confFrame, cfg>>

\* getGitHubCLIToken: exec of "gh auth token"
ConfCLI ==
    /\ sys = "conf" /\ fpc = "cli"
    /\ ConfAfterCLI(cfg, [model EXCEPT !.cliRun = TRUE, !.token = cfg.cli])
    /\ UNCHANGED <<confFrame, cfg, fop>>

\* getGitHubAppToken: Apps.CreateInstallationToken
ConfAppToken ==
    /\ sys = "conf" /\ fpc = "app"
    /\ \E st \in {StatusOK} \cup ReadFaults :
        IF st = StatusOK
        THEN ConfBuild(cfg, [model EXCEPT !.token = "app",
                                          !.issued = model.now])
        ELSE /\ model' = model /\ fpc' = "done"
             /\ diag' = "Failed to Create Installation Token"
    /\ UNCHANGED <<confFrame, cfg, fop>>

\* Configure: Users.Get for the owner, sent through the built client (it
\* cannot succeed without a credential); its failure leaves the owner empty
ConfOwner ==
    /\ sys = "conf" /\ fpc = "owner"
    /\ \E st \in (IF model.cred = "" THEN {} ELSE {StatusOK}) \cup ReadFaults :
        model' = [model EXCEPT !.owner = IF st = StatusOK THEN "o" ELSE ""]
    /\ fpc' = "ready"
    /\ UNCHANGED <<confFrame, cfg, fop, diag>>

\* an hour passes while the provider serves the run
ConfTick ==
    /\ sys = "conf" /\ fpc = "ready" /\ model.now < MaxClock
    /\ model' = [model EXCEPT !.now = @ + 1]
    /\ UNCHANGED <<confFrame, cfg, fop, fpc, diag>>

\* a resource sends a request through the stored client
ConfRequest ==
    /\ sys = "conf" /\ fpc = "ready"
    /\ model' = [model EXCEPT
                    !.sent = RequestToken(model),
                    !.sentAge = IF RequestToken(model) = "app"
                                THEN model.now - model.issued ELSE 0]
    /\ UNCHANGED <<confFrame, cfg, fop, fpc, diag>>

\* the provider process ends; the next run configures anew
ConfReturn ==
    /\ sys = "conf" /\ fpc \in {"done", "ready"}
    /\ fpc' = "idle" /\ fop' = "none" /\ diag' = "" /\ model' = ConfNull
    /\ UNCHANGED <<confFrame, cfg>>

ConfInit ==
    /\ sys = "conf"
    /\ rExists = [b \in Branches |-> TRUE]
    /\ rFileAt = [b \in Branches |-> 0]
    /\ prState = "none" /\ extCount = 0 /\ rRepo = NoRepo
    /\ cfg \in ProviderConfigs
    /\ tfPresent = FALSE /\ tfState = NullState /\ afterDelete = FALSE
    /\ fop = "none" /\ fpc = "idle" /\ model = ConfNull
    /\ optsSHA = NoSHA /\ attempt = 0 /\ wAttempt = 0 /\ pl = NoLocals
    /\ err = 0 /\ diag = "" /\ warned = FALSE /\ h = H0

ConfNext ==
    \/ ConfBegin
    \/ ConfCLI
    \/ ConfAppToken
    \/ ConfOwner
    \/ ConfTick
    \/ ConfRequest
    \/ ConfReturn

Init == FileInit \/ PRInit \/ BranchInit \/ RepoInit \/ RDInit \/ UnitInit \/ ConfInit

Next == FileNext \/ PRNext \/ BranchNext \/ RepoNext \/ RDNext \/ UnitNext \/ ConfNext

Spec == Init /\ [][Next]_vars

\* the steps of a running handler (the framework runs a handler to its end)
FileStep ==
    \/ FileCheckBranch \/ FileGetSourceRef \/ FileCreateRef \/ FilePrecheck
    \/ FileWrite \/ FileRefetch \/ FileReadCheckBranch \/ FileReadFile
    \/ FileCommitInfo

PRStep ==
    \/ PRList \/ PRReopen \/ PRGetBase \/ PRGetHead \/ PRCreate
    \/ PRMergeGet \/ PRChecksGet \/ PRChecksList \/ PRReview \/ PRRepoGet
    \/ PRMerge \/ PRMergeAlt \/ PRDeleteRef \/ PRRead \/ PREdit
    \/ PRDeleteGet \/ PRDeleteClose

BranchStep ==
    \/ BranchGetSource \/ BranchCreateRef \/ BranchRename \/ BranchRead
    \/ BranchDelete

RepoStep ==
    \/ RepoEdit \/ RepoTopics \/ RepoPages \/ RepoAlerts \/ RepoRead
    \/ RepoAlertsGet \/ RepoPagesInfo

\* a handler that was called runs on: every remote call is answered and the
\* goroutine is never abandoned
FairSpec ==
    Spec /\ WF_vars(FileStep \/ PRStep \/ BranchStep \/ RepoStep)

(***************************************************************************)
(* Claims                                                                  *)
(***************************************************************************)
\* the write operations the conflict-retry claims are about
InWriteScope ==
    /\ sys = "file"
    /\ \/ fop \in {"Update", "Delete"}
       \/ fop = "Create" /\ cfg.overwrite

\* C1 as stated: a write answered 409 or 422 is followed by a fetch of the
\* current blob SHA (the handler does not end on that answer), and the retry
\* carries the fetched SHA.
C1_Original ==
    /\ (InWriteScope /\ h.lastSite = "write"
            /\ h.lastAnswer \in {StatusConflict, StatusUnprocessableEntity})
         => fpc = "refetch"
    /\ (InWriteScope /\ fpc = "write" /\ attempt > 0 /\ h.fetchOK)
         => optsSHA = h.fetched

\* C1 amended: a write answered 409 is followed by a fetch of the current blob
\* SHA; when the fetch returns the file and attempts remain, the write is
\* retried with the fetched SHA; a write answered 422 is not retried: the
\* handler ends with the write-error diagnostic and sets no state.
C1_ConflictRetry ==
    /\ (InWriteScope /\ h.lastSite = "write" /\ h.lastAnswer = StatusConflict)
         => fpc = "refetch"
    /\ (InWriteScope /\ h.lastSite = "refetch" /\ h.fetchOK
            /\ attempt < maxRetries)
         => (fpc = "write" /\ optsSHA = h.fetched)
    /\ (InWriteScope /\ h.lastSite = "write"
            /\ h.lastAnswer = StatusUnprocessableEntity)
         => (fpc = "done" /\ diag = WriteError(fop) /\ ~h.stateSet
             /\ h.writes = attempt + 1)

\* C1 witness: an Update whose write was answered 409 went through after a
\* retry with the freshly fetched SHA
C1_Witness ==
    /\ sys = "file" /\ fop = "Update" /\ fpc = "readFile"
    /\ attempt > 0 /\ h.writes = attempt + 1 /\ err = 0
    /\ h.fetched # h.stateSHA

\* the last write of a finished write operation failed: no attempt succeeded
NoAttemptSucceeded ==
    /\ sys = "file" /\ fpc = "done"
    /\ fop \in {"Create", "Update", "Delete"}
    /\ h.writes > 0 /\ err # 0

\* C2 as stated, its final-result part: when no write attempt succeeded the
\* operation ends with an error diagnostic and has set no state.
C2_Original ==
    NoAttemptSucceeded => (diag # "" /\ ~h.stateSet)

\* Delete found the file already gone: DeleteFile, or the content fetch after
\* a 409, was answered 404
DeleteFoundGone ==
    /\ fop = "Delete"
    /\ h.lastAnswer = StatusNotFound
    /\ h.lastSite \in {"write", "refetch"}

\* C2 amended: an operation issues at most 5 write calls; when no attempt
\* succeeded it ends with an error diagnostic and sets no state, except a
\* Delete that found the file already gone (404), which ends without error;
\* every started operation reaches its end.
C2_BoundedWrites ==
    /\ [](sys = "file" => h.writes <= 5)
    /\ [](NoAttemptSucceeded =>
            /\ ~h.stateSet
            /\ (diag = "") <=> DeleteFoundGone)
    /\ ((sys = "file" /\ fpc \notin {"idle", "done"}) ~> (fpc = "done"))

\* C2 witness: an operation that used all five write calls and failed
C2_Witness ==
    /\ NoAttemptSucceeded /\ h.writes = 5 /\ diag # ""

\* C3: a write of Update or Delete carries a blob SHA: the SHA recorded in
\* state on the first attempt, the SHA most recently fetched on a retry; and
\* an existing file was changed or deleted only by a write whose SHA named
\* the remote's current blob.
C3_ShaPrecondition ==
    /\ (sys = "file" /\ fop \in {"Update", "Delete"} /\ fpc = "write") =>
            /\ optsSHA # NoSHA
            /\ (attempt = 0 => optsSHA = h.stateSHA)
            /\ (attempt > 0 => optsSHA = h.fetched)
    /\ (sys = "file" /\ fop \in {"Update", "Delete"} /\ h.modified)
            => h.modMatch

\* C3 witness: Update or Delete changed the file on a retry that carried a
\* fetched SHA other than the one in state
C3_Witness ==
    /\ sys = "file" /\ fop \in {"Update", "Delete"}
    /\ h.modified /\ attempt > 0 /\ h.fetched # h.stateSHA

\* Read learnt that the file, or its branch, is gone
ReadFoundGone ==
    /\ sys = "file" /\ fop = "Read"
    /\ h.lastAnswer = StatusNotFound
    /\ \/ h.lastSite = "readFile"
       \/ h.lastSite = "readCheckBranch" /\ ~cfg.autocreate

C8_RateLimitFatal ==
    (sys = "file" /\ h.lastAnswer = StatusTooManyRequests) =>
        /\ fpc = "done"
        /\ diag \notin {"", "Branch Not Found"}
        /\ ~h.stateSet

\* C4: mergeWhenReady makes at most 30 not-ready attempts and waitForChecks
\* at most 60 pending polls, every sleep between polls is 5 seconds; when
\* mergeWhenReady reaches its bound it ends with 'pull request not ready to
\* merge after 30 attempts', no merge call issued and no state set; when
\* waitForChecks reaches its bound it returns 'status checks did not
\* complete after 60 attempts' with no merge call issued; and every started
\* pull-request operation reaches its end.
C4_BoundedPolling ==
    /\ [](sys = "pr" =>
            /\ attempt <= 30 /\ wAttempt < 60
            /\ h.sleep \in {0, 5}
            /\ h.polls \in {0, 60})
    /\ [](sys = "pr" =>
            (attempt = 30 <=>
                h.mErr = "pull request not ready to merge after 30 attempts"))
    /\ []((sys = "pr"
            /\ h.mErr = "pull request not ready to merge after 30 attempts") =>
            /\ fpc = "done" /\ diag = "Error setting up auto-merge"
            /\ h.merges = 0 /\ ~h.stateSet)
    /\ []((sys = "pr" /\ h.wErr =
                "status checks did not complete after 60 attempts") =>
            /\ h.polls = 60 /\ h.merges = 0 /\ attempt >= 1)
    /\ ((sys = "pr" /\ fpc \in {"mGet", "wGet", "wList"}) ~> (fpc = "done"))

\* C4 witness: the last of the 30 attempts was a waitForChecks that gave up
\* after 60 pending polls
C4_Witness ==
    /\ sys = "pr" /\ fpc = "done" /\ attempt = 30
    /\ h.mErr = "pull request not ready to merge after 30 attempts"
    /\ h.wErr = "status checks did not complete after 60 attempts"
    /\ h.lastSite = "wList"

\* C5: a merge call is issued only with merge_when_ready set, after a poll of
\* mergeWhenReady that saw the pull request open with mergeable = true and,
\* with wait_for_checks, after a later status poll that held no status in
\* state pending, error or failure.
C5_MergeOnlyWhenReady ==
    (sys = "pr" /\ (fpc \in {"merge", "merge2"} \/ h.merges > 0)) =>
        /\ model.mwr
        /\ h.ready = "true"
        /\ (model.wait => h.polled = "clean")
        /\ (~model.wait => h.polled = "none")

\* C5 witness: with wait_for_checks, a merge call went through
C5_Witness ==
    /\ sys = "pr" /\ model.wait /\ h.merges = 1
    /\ h.lastSite = "merge" /\ h.lastAnswer = StatusOK
    /\ prState = "merged"

\* C7 as stated: when the branch's reference is answered 404, Read ends
\* without error and the state it writes has an empty id.
C7_ReadClearsId ==
    (sys = "branch" /\ fop = "Read" /\ h.lastSite = "bRead"
        /\ h.lastAnswer = StatusNotFound) =>
        (fpc = "done" /\ diag = "" /\ h.stateSet /\ tfState.id = Empty)

\* whatever the answer, the handler ended on it with an error diagnostic
\* and set no state
EndedInError == fpc = "done" /\ diag # "" /\ ~h.stateSet

FatalSites ==
    {"getSourceRef", "createRef", "write", "readFile",
     "prList", "reopen", "getBase", "getHead", "prCreate", "mGet", "merge2",
     "prRead", "prEdit", "dGet", "dClose",
     "bGetSource", "bCreateRef", "bRename", "bRead", "bDelete",
     "rEdit", "rRead"}

\* the calls whose failure is logged or turned into a warning
LenientSites ==
    {"precheck", "commitInfo", "review", "repoGet", "deleteRef",
     "rTopics", "rPages", "rAlerts", "rAlertsGet", "rPagesInfo"}

DeleteFoundAbsent ==
    /\ fop = "Delete"
    /\ \/ sys = "file" /\ h.lastSite \in {"write", "refetch"}
                       /\ h.lastAnswer = StatusNotFound
       \/ sys = "pr" /\ h.lastSite = "dGet" /\ h.lastAnswer = StatusNotFound
       \/ /\ sys = "branch" /\ h.lastSite = "bDelete"
          /\ \/ h.lastAnswer = StatusNotFound
             \/ /\ h.lastAnswer = StatusUnprocessableEntity
                /\ h.lastMsg = "Reference does not exist"

\* the last answer was a success or "already gone", not a failure
AnsweredTruthfully ==
    \/ h.lastAnswer \in {0, StatusOK, StatusNotFound}
    \/ h.lastMsg = "Reference does not exist"

\* C10: a Delete whose delete call is answered 404 (branch: also 422
\* 'Reference does not exist') ends without error diagnostic and the
\* resource leaves the state; and a Delete run again after a Delete that
\* ended without error and left the object gone, the remote untouched in
\* between, changes nothing remotely and ends without error unless a call
\* of its own fails.
C10_DeleteIdempotent ==
    /\ DeleteFoundAbsent => (fpc = "done" /\ diag = "" /\ ~tfPresent)
    /\ (fop = "Delete" /\ h.rerun /\ ~h.disturbed) =>
            /\ ~h.mutated
            /\ (fpc = "done" /\ AnsweredTruthfully) => diag = ""

\* C10 witness: the second Delete of a branch was answered 422 'Reference
\* does not exist' and ended without error
C10_Witness ==
    /\ sys = "branch" /\ fop = "Delete" /\ h.rerun /\ fpc = "done"
    /\ h.lastAnswer = StatusUnprocessableEntity
    /\ h.lastMsg = "Reference does not exist"
    /\ diag = ""

\* the credential the documented precedence selects: token, oauth_token,
\* GITHUB_TOKEN, GitHub CLI, GitHub App, none
\* C13: Create with overwrite_on_create=false sends no blob SHA and never
\* changes a file that is already at the path; when its last write call
\* found the path taken it ends with an error diagnostic and sets no state.
\* With overwrite_on_create=true the SHA it sends is the one the lookup of the
\* existing file returned, every write that replaces a file names the file's
\* current blob, and a Create that ends without error leaves the file with
\* the planned content.
C13_OverwriteOnCreate ==
    (sys = "file" /\ fop = "Create") =>
        IF ~cfg.overwrite
        THEN /\ optsSHA = NoSHA
             /\ ~h.modified
             /\ (fpc = "done" /\ h.writes > 0 /\ h.found) =>
                    (diag # "" /\ ~h.stateSet)
        ELSE /\ (fpc = "write" /\ h.fetched # NoSHA) => optsSHA = h.fetched
             /\ h.modMatch
             /\ (fpc = "done" /\ diag = "" /\ ~h.disturbed) =>
                    /\ h.stateSet
                    /\ rFileAt[RemoteBranch(cfg.branch)] = BlobSHA(model.content)

ReadRefreshed ==
    /\ sys = "rd" /\ fop = "Read" /\ fpc = "done" /\ diag = ""
    /\ h.stateSet /\ ~h.disturbed

\* C20 as stated: after a Read of a repository that ends without error,
\* every state attribute that mirrors a remote field (has_wiki standing for
\* the five has_* attributes, description, archived) equals the remote value,
\* also when the field was changed outside Terraform.
C20_ReadMirrorsRemote ==
    ReadRefreshed =>
        /\ tfState.hasWiki = BoolValue(rRepo.hasWiki)
        /\ tfState.description = rRepo.description
        /\ tfState.archived = BoolValue(rRepo.archived)

\* C15 as stated: Create of a pull request never goes on to create one when
\* the remote already has one for the base/head pair, whatever its state: it
\* reopens the one found only when that is closed and not merged, otherwise
\* it adopts it as it is, and a Create that ends without error (its last
\* call answered) has recorded the number in state; this holds for every Create, also one repeated after
\* a Create that failed part-way.
C15_OnePullRequest ==
    (sys = "pr" /\ fop = "Create" /\ ~h.disturbed) =>
        /\ fpc \in {"getBase", "getHead", "prCreate"} => prState = "none"
        /\ fpc = "reopen" => prState = "closed"
        /\ h.lastSite = "reopen" =>
                (prState = "open" \/ h.lastAnswer # StatusOK)
        /\ (h.lastSite = "prList" /\ h.lastAnswer = StatusOK
                /\ prState \in {"open", "merged"}) =>
                model.id = repoName \o <<":">> \o prNumber
        /\ (fpc = "done" /\ diag = "" /\ h.lastAnswer = StatusOK) =>
                (h.stateSet /\ tfState.id = repoName \o <<":">> \o prNumber)

\* Configure has been called
Configured == sys = "unit" /\ fpc = "done" /\ cfg.call = "Configure"

\* C18 as stated: Configure of every resource and data source leaves the
\* client unset without diagnostic for nil provider data, reports 'Unexpected
\* Resource Configure Type' (resources) or 'Unexpected Data Source Configure
\* Type' (data sources) and leaves client and owner unset for provider data
\* of another type, and for a githubxClientData stores exactly its client and
\* its owner without error.
C18_Original ==
    Configured =>
        CASE cfg.pd.type = "nil" ->
                diag = "" /\ model.client = "nil"
          [] cfg.pd.type = "githubxClientData" ->
                /\ diag = ""
                /\ model.client = cfg.pd.client
                /\ model.owner = cfg.pd.owner
          [] OTHER ->
                /\ diag = (IF cfg.obj.class = "resource"
                           THEN "Unexpected Resource Configure Type"
                           ELSE "Unexpected Data Source Configure Type")
                /\ model.client = "nil" /\ model.owner = Empty

\* C18, amended: as stated, except that the user data source, which has no
\* owner field, stores only the client of a githubxClientData.
C18_Configure ==
    Configured =>
        CASE cfg.pd.type = "nil" ->
                diag = "" /\ model.client = "nil"
          [] cfg.pd.type = "githubxClientData" ->
                /\ diag = ""
                /\ model.client = cfg.pd.client
                /\ model.owner =
                     (IF cfg.obj.class = "data source" /\ cfg.obj.name = "user"
                      THEN Empty ELSE cfg.pd.owner)
          [] OTHER ->
                /\ diag = (IF cfg.obj.class = "resource"
                           THEN "Unexpected Resource Configure Type"
                           ELSE "Unexpected Data Source Configure Type")
                /\ model.client = "nil" /\ model.owner = Empty

\* a data source was handed provider data of another type
C18_Witness ==
    /\ Configured /\ cfg.obj.class = "data source" /\ cfg.pd.type = "string"
    /\ diag = "Unexpected Data Source Configure Type"

\* number of '/' in s
Slashes(s) == Cardinality({i \in 1..Len(s) : s[i] = "/"})

\* C19: splitRepoFullName returns an error for every input that does not
\* contain exactly one '/', and for an input with exactly one '/' it returns
\* no error and an owner and a repo with owner + "/" + repo = input.
C19_SplitRepoFullName ==
    (sys = "unit" /\ fpc = "done" /\ cfg.call = "splitRepoFullName") =>
        /\ model.err <=> Slashes(cfg.fullName) # 1
        /\ ~model.err =>
                model.owner \o <<"/">> \o model.repo = cfg.fullName

\* a name with several '/' was refused
C19_Witness ==
    /\ sys = "unit" /\ fpc = "done" /\ cfg.call = "splitRepoFullName"
    /\ Slashes(cfg.fullName) = 2 /\ model.err

\* the commit Create of a branch is to start from, by the documentation
PlannedStart ==
    IF cfg.srcSha THEN ExplicitCommit
    ELSE IF cfg.source = Empty THEN MainTip ELSE SourceTip

\* C17: Create of a branch with a non-empty source_sha never looks the
\* source branch up and creates the ref at exactly source_sha; without
\* source_sha it creates the ref at the tip of source_branch ("main" when not
\* given), and a Create that ends without error has that commit in state as
\* source_sha.
C17_SourceShaWins ==
    (sys = "branch" /\ fop = "Create") =>
        /\ cfg.srcSha => (fpc # "bGetSource" /\ h.lastSite # "bGetSource")
        /\ ~cfg.srcSha =>
                (fpc = "bCreateRef" => h.lastSite = "bGetSource"
                                        /\ h.lastAnswer = StatusOK)
        /\ fpc = "bCreateRef" => model.srcSha = PlannedStart
        /\ h.createdFrom # 0 => h.createdFrom = PlannedStart
        /\ (fpc = "done" /\ diag = "" /\ h.stateSet) =>
                tfState.srcSha = PlannedStart

\* a branch created at the tip of "main", with the tip recorded in state
C17_Witness ==
    /\ sys = "branch" /\ fop = "Create" /\ fpc = "done" /\ diag = ""
    /\ ~cfg.srcSha /\ cfg.source = Empty
    /\ h.createdFrom = MainTip /\ h.stateSet /\ tfState.srcSha = MainTip

\* the branch named by the plan is missing when the handler looks for it
BranchMissed == h.lastSite = "checkBranch" /\ h.lastAnswer # StatusOK

\* C16: when Create or Update finds the target branch missing, then with
\* autocreate_branch=false it ends with "Branch Not Found" and has made no
\* remote write; with autocreate_branch=true the branch is created before any
\* file write, from autocreate_branch_source_sha when that is set (the source
\* branch is then not looked up) and otherwise from the tip of
\* autocreate_branch_source_branch ("main" when not given), and a failed
\* lookup or creation ends the operation before the file is written.
C16_AutocreateBranch ==
    (sys = "file" /\ fop \in {"Create", "Update"}) =>
        /\ (BranchMissed /\ ~cfg.autocreate) =>
                /\ fpc = "done" /\ diag = "Branch Not Found"
                /\ h.writes = 0 /\ ~h.mutated /\ ~h.stateSet
        /\ (BranchMissed /\ cfg.autocreate) =>
                /\ fpc = (IF cfg.srcSha THEN "createRef" ELSE "getSourceRef")
                /\ h.writes = 0 /\ ~h.mutated
        /\ fpc \in {"getSourceRef", "createRef"} =>
                (cfg.autocreate /\ h.writes = 0 /\ h.createdFrom = 0)
        /\ h.lastSite = "getSourceRef" =>
                /\ ~cfg.srcSha /\ h.writes = 0
                /\ fpc = (IF h.lastAnswer = StatusOK THEN "createRef" ELSE "done")
                /\ h.lastAnswer # StatusOK => diag = "Error querying source branch"
        /\ h.lastSite = "createRef" =>
                /\ h.writes = 0
                /\ IF h.lastAnswer = StatusOK
                   THEN /\ fpc \in {"precheck", "write"}
                        /\ h.createdFrom =
                             (IF cfg.srcSha THEN ExplicitCommit
                              ELSE IF cfg.source = "" THEN MainTip
                              ELSE SourceTip)
                   ELSE fpc = "done" /\ diag = "Error creating branch"
        /\ h.createdFrom # 0 => cfg.autocreate

\* the file was written on a branch created from the tip of "main"
C16_Witness ==
    /\ sys = "file" /\ fop = "Create" /\ fpc = "done" /\ diag = ""
    /\ cfg.autocreate /\ ~cfg.srcSha /\ cfg.source = ""
    /\ h.createdFrom = MainTip /\ h.writes > 0 /\ h.stateSet

\* a Create without overwrite refused on an existing file, and one with
\* overwrite that replaced an existing file
C13_Witness ==
    /\ sys = "file" /\ fop = "Create" /\ fpc = "done" /\ cfg.overwrite
    /\ diag = "" /\ h.modified /\ h.stateSet /\ ~h.disturbed

C13_WitnessRefused ==
    /\ sys = "file" /\ fop = "Create" /\ fpc = "done" /\ ~cfg.overwrite
    /\ h.found /\ h.lastSite = "refetch" /\ diag = "File Already Exists"

DocumentedCredential(c) ==
    CASE c.token # "" -> c.token
      [] c.token = "" /\ c.oauth # "" -> c.oauth
      [] c.token = "" /\ c.oauth = "" /\ c.env # "" -> c.env
      [] c.token = "" /\ c.oauth = "" /\ c.env = "" /\ c.cli # "" -> c.cli
      [] OTHER -> IF c.app = "valid" THEN "app" ELSE ""

\* C11 as stated: the client Configure stores uses as credential the first
\* available source in the order token, oauth_token, GITHUB_TOKEN, GitHub
\* CLI, GitHub App, and none when no source is available; the GitHub CLI is
\* not asked and app_auth is not evaluated when an earlier source gave a
\* token.
C11_CredentialOrder ==
    /\ (sys = "conf" /\ fpc = "ready")
            => model.cred = DocumentedCredential(cfg)
    /\ (sys = "conf" /\ fop = "Configure" /\ model.cliRun)
            => (cfg.token = "" /\ cfg.oauth = "" /\ cfg.env = "")
    /\ (sys = "conf" /\ fop = "Configure" /\ model.appRun)
            => (cfg.token = "" /\ cfg.oauth = "" /\ cfg.env = ""
                /\ cfg.cli = "")

\* C12 as stated: a request that carries a GitHub App installation token
\* carries one that has not expired, however long after Configure it is made.
C12_TokenRefreshed ==
    (sys = "conf" /\ fpc = "ready" /\ model.sent = "app")
        => model.sentAge < TokenTTL

====
